---- MODULE Spec2Model ----
(***************************************************************************)
(* SwiftHTTP: route table, path pattern matcher, middleware dispatch and   *)
(* the error pipeline of src/src/index.ts, src/src/utils/request.ts and    *)
(* src/src/utils/errors.ts.                                                *)
(*                                                                         *)
(* Strings are sequences of one-character strings.  A parameter mapping    *)
(* (Record<string,string>) is a set of <<name, value>> pairs with at most  *)
(* one pair per name.  Middleware, handlers, error handlers and reporters  *)
(* are user code: each is modelled by the behaviour it shows when it is    *)
(* invoked.                                                                *)
(***************************************************************************)
EXTENDS Integers, Sequences, FiniteSets, TLC

\* ------------------------------------------------------------------------
\* Bounds of the exploration
\* ------------------------------------------------------------------------
MaxGlobal == 2
MaxRouteMw == 1
MaxRoutes == 2
MaxErrorHandlers == 2
MaxReporters == 2
MaxChunks == 3
MaxCallback == 2
MaxParts == 3

\* ------------------------------------------------------------------------
\* String helpers (JavaScript String.prototype)
\* ------------------------------------------------------------------------
Str_u == <<"/", "u">>
Str_v == <<"/", "v">>
Str_param == <<"/", ":", "x">>
Str_optional == <<"/", "u", "/", ":", "x", "?">>
Str_wild == <<"/", "u", "/", "*">>
Str_uv == <<"/", "u", "/", "v">>
Str_bad == <<"/", "%">>
Str_ubad == <<"/", "u", "/", "%">>
Str_enc == <<"/", "%", "4", "1">>
Str_uparam == <<"/", "u", "/", ":", "x">>
Str_two == <<"/", ":", "x", "/", ":", "y">>
Str_optx == <<"/", ":", "x", "?">>
Str_optxu == <<"/", ":", "x", "?", "/", "u">>
Str_star == <<"*">>
Str_root == <<"/">>
Str_ux == <<"/", "u", "x">>
Str_uenc == <<"/", "u", "/", "%", "4", "1">>
Str_1mb == <<"1", "m", "b">>
Str_uslash == <<"/", "u", "/">>
Str_slashu == <<"/", "/", "u">>
Str_uslashparam == <<"/", "u", "/", "/", ":", "x">>
Str_uvw == <<"/", "u", "/", "v", "/", "w">>
Str_xy == <<"/", ":", "x", "y">>
Str_1kb == <<"1", "k", "b">>
Str_2mb == <<"2", "m", "b">>
Name_x == <<"x">>
Name_y == <<"y">>
Name_wildcard == <<"w", "i", "l", "d", "c", "a", "r", "d">>

includes(s, c) == \E i \in 1..Len(s) : s[i] = c

\* s.includes(sub) for a string sub
includesStr(s, sub) ==
    \E i \in 1..(Len(s) - Len(sub) + 1) : SubSeq(s, i, i + Len(sub) - 1) = sub

startsWith(s, p) == Len(p) <= Len(s) /\ SubSeq(s, 1, Len(p)) = p

endsWith(s, p) == Len(p) <= Len(s) /\ SubSeq(s, Len(s) - Len(p) + 1, Len(s)) = p

\* s.slice(n) for n >= 0
sliceFrom(s, n) == SubSeq(s, n + 1, Len(s))

\* s.slice(0, -n) for n >= 0
sliceEnd(s, n) == SubSeq(s, 1, Len(s) - n)

RECURSIVE splitAcc(_, _)
splitAcc(s, cur) ==
    IF s = <<>> THEN <<cur>>
    ELSE IF Head(s) = "/" THEN <<cur>> \o splitAcc(Tail(s), <<>>)
    ELSE splitAcc(Tail(s), Append(cur, Head(s)))

\* s.split("/")
split(s) == splitAcc(s, <<>>)

IsNonEmpty(x) == x # <<>>

\* segs.filter(Boolean): the empty string is falsy
filterBoolean(segs) == SelectSeq(segs, IsNonEmpty)

\* The hexadecimal digits among the characters the model's strings use.
HexDigit == {"1", "4"}

\* The character a %XX escape stands for (all are ASCII here).
PercentChar(h1, h2) ==
    IF h1 = "4" /\ h2 = "1" THEN "A"
    ELSE IF h1 = "4" /\ h2 = "4" THEN "D"
    ELSE IF h1 = "1" /\ h2 = "1" THEN "DC1"
    ELSE "DC4"

\* decodeURIComponent: ok = FALSE stands for the URIError it throws on a
\* "%" that is not followed by two hexadecimal digits.
RECURSIVE decodeURIComponent(_)
decodeURIComponent(s) ==
    IF s = <<>> THEN [ok |-> TRUE, val |-> <<>>]
    ELSE IF Head(s) # "%" THEN
        LET r == decodeURIComponent(Tail(s)) IN
        [ok |-> r.ok, val |-> IF r.ok THEN <<Head(s)>> \o r.val ELSE <<>>]
    ELSE IF Len(s) >= 3 /\ s[2] \in HexDigit /\ s[3] \in HexDigit THEN
        LET r == decodeURIComponent(SubSeq(s, 4, Len(s))) IN
        [ok |-> r.ok,
         val |-> IF r.ok THEN <<PercentChar(s[2], s[3])>> \o r.val ELSE <<>>]
    ELSE [ok |-> FALSE, val |-> <<>>]

\* params[name] = value
SetParam(params, name, value) ==
    {p \in params : p[1] # name} \cup {<<name, value>>}

\* ------------------------------------------------------------------------
\* Path pattern matcher (src/src/utils/request.ts)
\* A result is [threw, matches, params]; threw = TRUE is an exception
\* (URIError) leaving the matcher.
\* ------------------------------------------------------------------------
MatchResult(m, ps) == [threw |-> FALSE, matches |-> m, params |-> ps]

MatchThrew == [threw |-> TRUE, matches |-> FALSE, params |-> {}]

RECURSIVE matchRouteLoop(_, _, _, _)
matchRouteLoop(routeSegments, requestSegments, i, params) ==
    IF i > Len(routeSegments) THEN MatchResult(TRUE, params)
    ELSE IF startsWith(routeSegments[i], <<":">>) THEN
        LET d == decodeURIComponent(requestSegments[i]) IN
        IF ~d.ok THEN MatchThrew
        ELSE matchRouteLoop(routeSegments, requestSegments, i + 1,
                 SetParam(params, sliceFrom(routeSegments[i], 1), d.val))
    ELSE IF routeSegments[i] # requestSegments[i] THEN MatchResult(FALSE, {})
    ELSE matchRouteLoop(routeSegments, requestSegments, i + 1, params)

matchRoute(routePath, requestPath) ==
    LET routeSegments == filterBoolean(split(routePath))
        requestSegments == filterBoolean(split(requestPath))
    IN  IF Len(routeSegments) # Len(requestSegments) THEN MatchResult(FALSE, {})
        ELSE matchRouteLoop(routeSegments, requestSegments, 1, {})

matchWildcardRoute(routePath, requestPath) ==
    IF routePath = <<"*">> THEN MatchResult(TRUE, {})
    ELSE IF endsWith(routePath, <<"/", "*">>)
            /\ startsWith(requestPath, sliceEnd(routePath, 2))
         THEN MatchResult(TRUE,
                  {<<Name_wildcard,
                     sliceFrom(requestPath, Len(sliceEnd(routePath, 2)))>>})
    ELSE MatchResult(FALSE, {})

RECURSIVE matchOptionalLoop(_, _, _, _, _)
matchOptionalLoop(routeSegments, requestSegments, routeIndex, requestIndex, params) ==
    IF routeIndex > Len(routeSegments)
    THEN MatchResult(requestIndex = Len(requestSegments) + 1, params)
    ELSE LET routeSegment == routeSegments[routeIndex] IN
      IF startsWith(routeSegment, <<":">>) /\ endsWith(routeSegment, <<"?">>) THEN
        IF requestIndex <= Len(requestSegments) THEN
            LET d == decodeURIComponent(requestSegments[requestIndex]) IN
            IF ~d.ok THEN MatchThrew
            ELSE matchOptionalLoop(routeSegments, requestSegments, routeIndex + 1,
                     requestIndex + 1,
                     SetParam(params,
                         SubSeq(routeSegment, 2, Len(routeSegment) - 1), d.val))
        ELSE matchOptionalLoop(routeSegments, requestSegments, routeIndex + 1,
                 requestIndex, params)
      ELSE IF startsWith(routeSegment, <<":">>) THEN
        IF requestIndex > Len(requestSegments) THEN MatchResult(FALSE, {})
        ELSE LET d == decodeURIComponent(requestSegments[requestIndex]) IN
            IF ~d.ok THEN MatchThrew
            ELSE matchOptionalLoop(routeSegments, requestSegments, routeIndex + 1,
                     requestIndex + 1,
                     SetParam(params, sliceFrom(routeSegment, 1), d.val))
      ELSE IF requestIndex > Len(requestSegments)
              \/ routeSegment # requestSegments[requestIndex]
           THEN MatchResult(FALSE, {})
      ELSE matchOptionalLoop(routeSegments, requestSegments, routeIndex + 1,
               requestIndex + 1, params)

\* matchOptionalRoute without the optional segments: the pattern is matched
\* segment for segment like a plain one
matchOptionalRouteAsPlain(routePath, requestPath) ==
    matchRoute(routePath, requestPath)

matchOptionalRoute(routePath, requestPath) ==
    matchOptionalLoop(filterBoolean(split(routePath)),
                      filterBoolean(split(requestPath)), 1, 1, {})

\* ------------------------------------------------------------------------
\* Regular expression patterns
\* A RegExp object is <<"RegExp", source, flags, lastIndex>>; a route whose
\* path is a RegExp holds the object itself, so the object a call leaves
\* behind is the one the next call receives.  Two sources stand for the
\* anchored and the unanchored expressions:
\*   "^/u/(.*)$"  the paths under /u/, capturing the rest
\*   "/(.)"       a slash and the character after it, capturing it
\* ------------------------------------------------------------------------
Re_uRest == "^/u/(.*)$"

Re_slashChar == "/(.)"

RegExpObject(source, flags, lastIndex) == <<"RegExp", source, flags, lastIndex>>

\* routePath instanceof RegExp
IsRegExp(routePath) == Len(routePath) > 0 /\ routePath[1] = "RegExp"

\* Whether the expression matches the string at the 0-based index i, where
\* the match ends and what it captures.
MatchAt(source, str, i) ==
    IF source = Re_uRest
    THEN [ok |-> i = 0 /\ startsWith(str, <<"/", "u", "/">>),
          end |-> Len(str),
          captures |-> <<sliceFrom(str, 3)>>]
    ELSE [ok |-> i + 2 <= Len(str) /\ str[i + 1] = "/",
          end |-> i + 2,
          captures |-> IF i + 2 <= Len(str) THEN <<<<str[i + 2]>>>> ELSE <<>>]

\* RegExp.prototype.exec: with the g or y flag the search starts at
\* lastIndex, a match moves lastIndex to its end and a failure resets it
\* to 0; y matches at lastIndex only.  Without them lastIndex is ignored.
RegExpExec(re, str) ==
    LET source == re[2]
        flags == re[3]
        lastIndex == re[4]
        stateful == flags \in {"g", "y"}
        start == IF stateful THEN lastIndex ELSE 0
        positions == IF flags = "y" THEN {start} \cap (0..Len(str))
                     ELSE start..Len(str)
        hits == {i \in positions : MatchAt(source, str, i).ok}
    IN  IF hits = {}
        THEN [match |-> FALSE, captures |-> <<>>,
              re |-> RegExpObject(source, flags, IF stateful THEN 0 ELSE lastIndex)]
        ELSE LET i == CHOOSE h \in hits : \A j \in hits : h <= j
                 m == MatchAt(source, str, i)
             IN  [match |-> TRUE, captures |-> m.captures,
                  re |-> RegExpObject(source, flags,
                             IF stateful THEN m.end ELSE lastIndex)]

\* The name of the parameter of the capture group of the given number
CaptureName(index) == <<"$", IF index = 1 THEN "1" ELSE "2">>

\* matchRegexRoute: RegExp(routePattern) is routePattern itself, so exec
\* runs on the route's own object; pattern is the object after the call.
matchRegexRoute(routePattern, requestPath) ==
    LET r == RegExpExec(routePattern, requestPath) IN
    [threw |-> FALSE,
     matches |-> r.match,
     params |-> IF r.match
                THEN {<<CaptureName(index), r.captures[index]>> :
                          index \in 1..Len(r.captures)}
                ELSE {},
     pattern |-> r.re]

enhancedMatchRoute(routePath, requestPath) ==
    IF IsRegExp(routePath) THEN matchRegexRoute(routePath, requestPath)
    ELSE IF includes(routePath, "*") THEN matchWildcardRoute(routePath, requestPath)
    ELSE IF includes(routePath, "?") THEN matchOptionalRoute(routePath, requestPath)
    ELSE matchRoute(routePath, requestPath)

\* ------------------------------------------------------------------------
\* Typed errors (src/src/utils/errors.ts)
\* ------------------------------------------------------------------------
Undefined == [kind |-> "undefined"]

\* new Error(message) and its built-in subclasses (URIError)
GenericError(name, message) ==
    [kind |-> "Error", name |-> name, message |-> message, stack |-> "stack"]

SwiftError(name, message, statusCode, code, details) ==
    [kind |-> "SwiftError", name |-> name, message |-> message,
     statusCode |-> statusCode, code |-> code, details |-> details,
     stack |-> "stack"]

NotFoundError(message) ==
    SwiftError("NotFoundError", message, 404, "NOT_FOUND", Undefined)

UnauthorizedError(message) ==
    SwiftError("UnauthorizedError", message, 401, "UNAUTHORIZED", Undefined)

InternalServerError(message, details) ==
    SwiftError("InternalServerError", message, 500, "INTERNAL_SERVER_ERROR", details)

isSwiftError(error) == error.kind = "SwiftError"

\* normaliseError without the test of isSwiftError: every value is wrapped
normaliseErrorWrapAll(error) ==
    IF error.kind \in {"Error", "SwiftError"}
    THEN InternalServerError(error.message,
             [kind |-> "object", originalError |-> [kind |-> "string", value |-> error.name]])
    ELSE InternalServerError(<<"Unknown error occurred">>,
             [kind |-> "object", originalError |-> error])

normaliseError(error) ==
    IF isSwiftError(error) THEN error
    ELSE IF error.kind = "Error"
         THEN InternalServerError(error.message,
                  [kind |-> "object", originalError |-> [kind |-> "string", value |-> error.name]])
    ELSE InternalServerError(<<"Unknown error occurred">>,
             [kind |-> "object", originalError |-> error])

NextCalledError == GenericError("Error", <<"next() called multiple times">>)

URIError == GenericError("URIError", <<"URI malformed">>)

\* ------------------------------------------------------------------------
\* Response object (http.ServerResponse with the helpers of enhanceResponse)
\* ------------------------------------------------------------------------
NoBody == [kind |-> "none"]

FreshResponse == [headersSent |-> FALSE, statusCode |-> 200, body |-> NoBody]

\* res.writeHead(status); res.end(body)  /  res.status(status).json(body).
\* A response that was already sent is not sent again.
ResEnd(res, status, body) ==
    IF res.headersSent THEN res
    ELSE [headersSent |-> TRUE, statusCode |-> status, body |-> body]

UserBody(who, i) == [kind |-> "user", by |-> <<who, i>>]

\* ------------------------------------------------------------------------
\* Behaviours of user code
\* ------------------------------------------------------------------------
\* A middleware (req, res, next):
\*   "next"        async: await next()
\*   "nextNoAwait" calls next() and drops the promise it returns
\*   "twice"       async: await next(); await next()
\*   "silent"      returns without calling next and without writing
\*   "respond"     writes a response, does not call next
\*   "throw"       throws new Error(...)
MwBehaviours == {"next", "nextNoAwait", "twice", "silent", "respond", "throw"}

\* A route handler (req, res): writes a response, or throws a typed error.
HandlerBehaviours == {"respond", "throw"}

\* An error handler (error, req, res, next)
ErrorHandlerBehaviours == {"pass", "respond", "throw"}

\* An ErrorReporter.report: returns (or resolves), throws synchronously, or
\* returns a promise that rejects
ReporterBehaviours == {"ok", "throw", "reject"}

\* An object with a report method of the given behaviour
Reporter(b) == [kind |-> "reporter", report |-> b]

\* new CompositeErrorReporter(reporters)
CompositeErrorReporter(reporters) == [kind |-> "composite", reporters |-> reporters]

\* new ConsoleErrorReporter(): its report only writes to the console
ConsoleErrorReporter == Reporter("ok")

MiddlewareFailure == GenericError("Error", <<"middleware failed">>)

HandlerFailure == UnauthorizedError(<<"Token required">>)

\* ------------------------------------------------------------------------
\* Dispatch pipeline (src/src/index.ts, executeMiddleware / executeHandler)
\* The per-request state threaded through a dispatch:
\*   index      the cursor of the running executeMiddleware
\*   res        the response
\*   log        the user code invoked so far, in order
\*   unhandled  rejections of promises nobody awaits
\* An outcome is [threw, error, st].
\* ------------------------------------------------------------------------
Returned(st) == [threw |-> FALSE, error |-> Undefined, st |-> st]

Thrown(st, error) == [threw |-> TRUE, error |-> error, st |-> st]

\* let index = 0
InitialIndex == 0

RECURSIVE dispatch(_, _, _, _)
\* dispatch without the test of the cursor
dispatchUnguarded(middlewares, chain, i, st) ==
    LET st1 == [st EXCEPT !.index = i] IN
    IF i >= Len(middlewares) THEN Returned(st1)
    ELSE LET middleware == middlewares[i + 1]
             st2 == [st1 EXCEPT !.log = Append(@, <<chain, i>>)]
         IN
      IF middleware \in {"next", "nextNoAwait", "twice"}
      THEN dispatch(middlewares, chain, i + 1, st2)
      ELSE Returned(st2)

dispatch(middlewares, chain, i, st) ==
    IF i <= st.index THEN Thrown(st, NextCalledError)
    ELSE LET st1 == [st EXCEPT !.index = i] IN
      IF i >= Len(middlewares) THEN Returned(st1)
      ELSE LET middleware == middlewares[i + 1]
               st2 == [st1 EXCEPT !.log = Append(@, <<chain, i>>)]
           IN
        IF middleware = "next" THEN dispatch(middlewares, chain, i + 1, st2)
        ELSE IF middleware = "nextNoAwait" THEN
            LET r == dispatch(middlewares, chain, i + 1, st2) IN
            IF r.threw
            THEN Returned([r.st EXCEPT !.unhandled = Append(@, r.error)])
            ELSE Returned(r.st)
        ELSE IF middleware = "twice" THEN
            LET r == dispatch(middlewares, chain, i + 1, st2) IN
            IF r.threw THEN r ELSE Thrown(r.st, NextCalledError)
        ELSE IF middleware = "silent" THEN Returned(st2)
        ELSE IF middleware = "respond"
             THEN Returned([st2 EXCEPT !.res = ResEnd(@, 200, UserBody(chain, i))])
        ELSE Thrown(st2, MiddlewareFailure)

executeMiddleware(middlewares, chain, st) ==
    dispatch(middlewares, chain, 0, [st EXCEPT !.index = InitialIndex])

executeHandler(handler, st) ==
    LET st1 == [st EXCEPT !.log = Append(@, <<"handler", 0>>)] IN
    IF handler = "respond"
    THEN Returned([st1 EXCEPT !.res = ResEnd(@, 200, UserBody("handler", 0))])
    ELSE Thrown(st1, HandlerFailure)

\* ------------------------------------------------------------------------
\* Body reader as handleRequest uses it (src/src/utils/request.ts)
\* A stream is [declared, total]: the Content-Length header and the number
\* of bytes the stream delivers before it ends.
\* ------------------------------------------------------------------------
\* parseLimit("1mb"), the default limit
LimitBytes == 1048576

EmptyStream == [declared |-> 0, total |-> 0]

LargeStream == [declared |-> LimitBytes + 1, total |-> LimitBytes + 1]

Streams == {EmptyStream, LargeStream}

EntityTooLarge == GenericError("Error", <<"Request entity too large">>)

parseRequestBody(stream) ==
    IF stream.declared > LimitBytes THEN [threw |-> TRUE, error |-> EntityTooLarge]
    ELSE IF stream.total > LimitBytes THEN [threw |-> TRUE, error |-> EntityTooLarge]
    ELSE [threw |-> FALSE, error |-> Undefined]

methodsWithBody == {"POST", "PUT", "PATCH"}

enhanceRequest(request) ==
    IF request.method \in methodsWithBody
    THEN parseRequestBody(request.stream)
    ELSE [threw |-> FALSE, error |-> Undefined]

\* ------------------------------------------------------------------------
\* Body reader, event by event (src/src/utils/request.ts, enhanceRequest and
\* parseRequestBody).  The state of one enhanceRequest call is a record:
\*   stage       "idle", "reading" (awaiting parseRequestBody) or "done"
\*   method, contentType, multipart, payload   the request and the option
\*   declared    the Content-Length header (0 when absent)
\*   attached    the 'data', 'end' and 'error' listeners are attached
\*   timer       "none", "armed", "cleared" or "fired"
\*   consumed    the number of 'data' events handled
\*   chunks      the lengths of the chunks pushed to the buffer list
\*   totalSize   the running byte total
\*   ended       the stream has ended or failed
\*   promise     "none", "pending", "resolved" or "rejected"
\*   settledBy   what settled it: "length", "data", "end", "error", "timeout"
\*   value       the value or the error of the promise
\*   outcome     of enhanceRequest: "none", "returned" or "threw"
\*   body        swiftReq.body
\*   limit, json, urlencoded, text, raw   the options of parseRequestBody
\*   limitBytes  parseLimit(limit)
\* ------------------------------------------------------------------------
ContentTypes ==
    {"", "application/json", "application/x-www-form-urlencoded", "text/plain",
     "multipart/form-data", "multipart/form-data; boundary=b"}

\* Content types that fall under two of the decoding rules
MixedContentTypes ==
    {"text/plain; a=multipart/form-data", "text/plain; a=application/json",
     "application/json; a=multipart/form-data"}

\* contentType.includes("application/x-www-form-urlencoded")
IsUrlencoded(contentType) == contentType = "application/x-www-form-urlencoded"

\* contentType.includes("application/json")
IsJson(contentType) ==
    contentType \in {"application/json", "text/plain; a=application/json",
                     "application/json; a=multipart/form-data"}

\* contentType.startsWith("text/")
IsText(contentType) ==
    contentType \in {"text/plain", "text/plain; a=multipart/form-data",
                     "text/plain; a=application/json"}

\* contentType.includes("multipart/form-data")
IsMultipart(contentType) ==
    contentType \in {"multipart/form-data", "multipart/form-data; boundary=b",
                     "text/plain; a=multipart/form-data",
                     "application/json; a=multipart/form-data"}

\* /boundary=([^;]+)/.exec(contentType) finds a boundary
HasBoundary(contentType) == contentType = "multipart/form-data; boundary=b"

\* What the bytes of a non-empty body are when read as JSON: a document,
\* the literal null, or not JSON at all
Payloads == {"object", "null", "malformed"}

Null == [kind |-> "null"]

BufferOf(bytes) == [kind |-> "buffer", bytes |-> bytes]

StringOf(bytes) == [kind |-> "string", bytes |-> bytes]

RequestTimeout == GenericError("Error", <<"Request timeout">>)

RequestError == GenericError("Error", <<"Request error">>)

BodyParsingError == GenericError("Error", <<"Body parsing error">>)

RECURSIVE SumSeq(_)
SumSeq(q) == IF q = <<>> THEN 0 ELSE q[1] + SumSeq(Tail(q))

\* ------------------------------------------------------------------------
\* parseLimit (src/unnamed/part_003)
\* ------------------------------------------------------------------------
Digits == <<"0", "1", "2", "3", "4", "5", "6", "7", "8", "9">>

IsDigit(c) == \E d \in 1..10 : Digits[d] = c

DigitValue(c) == (CHOOSE d \in 1..10 : Digits[d] = c) - 1

\* /^\d+$/ on the string
IsDigits(str) == str # <<>> /\ \A i \in 1..Len(str) : IsDigit(str[i])

\* The number a string of digits denotes
RECURSIVE DigitsValue(_)
DigitsValue(str) ==
    IF str = <<>> THEN 0
    ELSE 10 * DigitsValue(SubSeq(str, 1, Len(str) - 1)) + DigitValue(str[Len(str)])

RECURSIVE Pow(_, _)
Pow(base, e) == IF e = 0 THEN 1 ELSE base * Pow(base, e - 1)

\* limit.toLowerCase(), on the letters of the units
toLowerCase(str) ==
    [i \in 1..Len(str) |->
        IF str[i] = "B" THEN "b" ELSE IF str[i] = "K" THEN "k"
        ELSE IF str[i] = "M" THEN "m" ELSE IF str[i] = "G" THEN "g" ELSE str[i]]

\* units[unit]
UnitBytes(unit) ==
    IF unit = <<"k", "b">> THEN 1024
    ELSE IF unit = <<"m", "b">> THEN 1024 * 1024
    ELSE IF unit = <<"g", "b">> THEN 1024 * 1024 * 1024
    ELSE 1

\* The match of /^(\d+(?:\.\d+)?)(b|kb|mb|gb)?$/: match[2] is the longest
\* unit the string ends with (a shorter one leaves a letter in match[1]),
\* match[1] the text before it, split at its '.' if it has one.
LimitMatch(str) ==
    LET unit == IF \E u \in {<<"k", "b">>, <<"m", "b">>, <<"g", "b">>} : endsWith(str, u)
                THEN SubSeq(str, Len(str) - 1, Len(str))
                ELSE IF endsWith(str, <<"b">>) THEN <<"b">> ELSE <<>>
        number == sliceEnd(str, Len(unit))
        dots == {i \in 1..Len(number) : number[i] = "."}
        dot == IF dots = {} THEN 0 ELSE CHOOSE i \in dots : \A j \in dots : i <= j
        whole == IF dot = 0 THEN number ELSE SubSeq(number, 1, dot - 1)
        fraction == IF dot = 0 THEN <<>> ELSE sliceFrom(number, dot)
    IN  [ok |-> IsDigits(whole) /\ (dot # 0 => IsDigits(fraction)),
         whole |-> whole, fraction |-> fraction, unit |-> unit]

InvalidLimitFormat == GenericError("Error", <<"Invalid limit format">>)

\* parseLimit without the unit: the number is taken as bytes
parseLimitIgnoreUnit(limit) ==
    LET m == LimitMatch(toLowerCase(limit)) IN
    IF ~m.ok THEN [ok |-> FALSE, val |-> 0]
    ELSE [ok |-> TRUE, val |-> DigitsValue(m.whole)]

\* parseLimit: ok = FALSE stands for the error it throws.  parseFloat gives
\* whole + fraction / 10^f; the product with the unit is floored.
parseLimit(limit) ==
    LET m == LimitMatch(toLowerCase(limit)) IN
    IF ~m.ok THEN [ok |-> FALSE, val |-> 0]
    ELSE [ok |-> TRUE,
          val |-> DigitsValue(m.whole) * UnitBytes(m.unit)
                  + (DigitsValue(m.fraction) * UnitBytes(m.unit))
                    \div Pow(10, Len(m.fraction))]

\* The options of parseRequestBody after its defaults (lines 19-25), with
\* the multipart option of enhanceRequest
DefaultOptions ==
    [limit |-> Str_1mb, json |-> TRUE, urlencoded |-> TRUE, text |-> TRUE,
     raw |-> FALSE, multipart |-> FALSE]

\* { raw: true }
RawOptions == [DefaultOptions EXCEPT !.raw = TRUE]

IdleReader ==
    [stage |-> "idle", method |-> "none", contentType |-> "", multipart |-> FALSE,
     limit |-> Str_1mb, json |-> TRUE, urlencoded |-> TRUE, text |-> TRUE,
     limitBytes |-> LimitBytes,
     payload |-> "object", raw |-> FALSE, declared |-> 0, attached |-> FALSE,
     timer |-> "none", consumed |-> 0, chunks |-> <<>>, totalSize |-> 0,
     ended |-> FALSE, promise |-> "none", settledBy |-> "none",
     value |-> Undefined, outcome |-> "none", body |-> Null]

\* resolve(value) / reject(error) and, as the promise is awaited by
\* enhanceRequest (lines 349-355), the end of enhanceRequest.  A promise
\* that is settled stays as it is.  After a raw read for multipart the body
\* is the fields of parseMultipartData.
settle(r, how, by, value) ==
    IF r.promise # "pending" THEN r
    ELSE [r EXCEPT !.promise = how, !.settledBy = by, !.value = value,
                   !.stage = "done",
                   !.outcome = IF how = "resolved" THEN "returned" ELSE "threw",
                   !.body = IF how # "resolved" THEN @
                            ELSE IF r.multipart /\ IsMultipart(r.contentType)
                            THEN [kind |-> "fields"]
                            ELSE value]

\* The reader with the options of the parseRequestBody call
WithOptions(r, options, limitBytes) ==
    [r EXCEPT !.limit = options.limit, !.raw = options.raw, !.json = options.json,
              !.urlencoded = options.urlencoded, !.text = options.text,
              !.limitBytes = limitBytes]

\* parseRequestBody that attaches to the stream without looking at the
\* declared length
parseRequestBodyAttachFirst(r, options) ==
    [WithOptions(r, options, parseLimit(options.limit).val)
        EXCEPT !.stage = "reading", !.attached = TRUE,
               !.timer = "armed", !.promise = "pending"]

\* parseRequestBody up to the return of its promise (lines 27-38, 98-108):
\* parseLimit and the check of Content-Length throw before the promise is
\* built.
parseRequestBodyCall(r, options) ==
    LET limitBytes == parseLimit(options.limit) IN
    IF ~limitBytes.ok
    THEN [WithOptions(r, options, 0)
             EXCEPT !.stage = "done", !.promise = "rejected",
                    !.settledBy = "limit", !.value = InvalidLimitFormat,
                    !.outcome = "threw"]
    ELSE IF r.declared > limitBytes.val
    THEN [WithOptions(r, options, limitBytes.val)
             EXCEPT !.stage = "done", !.promise = "rejected",
                    !.settledBy = "length", !.value = EntityTooLarge,
                    !.outcome = "threw"]
    ELSE [WithOptions(r, options, limitBytes.val)
             EXCEPT !.stage = "reading", !.attached = TRUE,
                    !.timer = "armed", !.promise = "pending"]

\* enhanceRequest(req, parsingOptions), lines 333-357, up to its first await
enhanceRequestOptions(method, contentType, parsingOptions, declared, payload) ==
    LET r == [IdleReader EXCEPT !.method = method, !.contentType = contentType,
                                !.multipart = parsingOptions.multipart,
                                !.declared = declared, !.payload = payload]
        returned == [r EXCEPT !.stage = "done", !.outcome = "returned"]
    IN
    IF method \notin methodsWithBody THEN returned
    ELSE IF parsingOptions.multipart /\ IsMultipart(contentType)
         THEN IF HasBoundary(contentType) THEN parseRequestBodyCall(r, RawOptions)
              ELSE returned
    ELSE parseRequestBodyCall(r, parsingOptions)

\* enhanceRequest with { multipart } as its only option
enhanceRequestCall(method, contentType, multipart, declared, payload) ==
    enhanceRequestOptions(method, contentType,
        [DefaultOptions EXCEPT !.multipart = multipart], declared, payload)

\* The 'data' listener that pushes the chunk before it looks at the total
onDataPushFirst(r, size) ==
    LET r1 == [r EXCEPT !.totalSize = @ + size, !.consumed = @ + 1,
                        !.chunks = Append(@, size)] IN
    IF r1.totalSize > r.limitBytes
    THEN settle(r1, "rejected", "data", EntityTooLarge)
    ELSE r1

\* The 'data' listener, lines 42-56
onData(r, size) ==
    LET r1 == [r EXCEPT !.totalSize = @ + size, !.consumed = @ + 1] IN
    IF r1.totalSize > r.limitBytes
    THEN settle(r1, "rejected", "data", EntityTooLarge)
    ELSE [r1 EXCEPT !.chunks = Append(@, size)]

\* The first 'end' listener, lines 58-96: what is resolved or rejected
decodeBody(r) ==
    LET bytes == SumSeq(r.chunks) IN
    IF Len(r.chunks) = 0 THEN [how |-> "resolved", value |-> Null]
    ELSE IF r.raw THEN [how |-> "resolved", value |-> BufferOf(bytes)]
    ELSE IF r.json /\ IsJson(r.contentType)
         THEN IF bytes = 0 \/ r.payload = "malformed"
              THEN [how |-> "rejected", value |-> BodyParsingError]
              ELSE IF r.payload = "null" THEN [how |-> "resolved", value |-> Null]
              ELSE [how |-> "resolved", value |-> [kind |-> "json", bytes |-> bytes]]
    ELSE IF r.urlencoded /\ IsUrlencoded(r.contentType)
         THEN [how |-> "resolved", value |-> [kind |-> "form", bytes |-> bytes]]
    ELSE IF r.text /\ IsText(r.contentType) THEN [how |-> "resolved", value |-> StringOf(bytes)]
    ELSE IF IsMultipart(r.contentType)
         THEN [how |-> "resolved", value |-> BufferOf(bytes)]
    ELSE [how |-> "resolved", value |-> StringOf(bytes)]

ClearTimeout(r) == [r EXCEPT !.timer = IF @ = "armed" THEN "cleared" ELSE @]

\* Both 'end' listeners, lines 58-96 and 107
onEnd(r) ==
    LET d == decodeBody(r) IN
    ClearTimeout([settle(r, d.how, "end", d.value) EXCEPT !.ended = TRUE])

\* Both 'error' listeners, lines 98-100 and 108
onError(r) ==
    ClearTimeout([settle(r, "rejected", "error", RequestError) EXCEPT !.ended = TRUE])

\* A timer that gives up only on a stream that delivered nothing
onTimeoutIfNoBytes(r) ==
    IF r.consumed > 0 THEN r
    ELSE [settle(r, "rejected", "timeout", RequestTimeout) EXCEPT !.timer = "fired"]

\* The timer callback, lines 103-105
onTimeout(r) ==
    [settle(r, "rejected", "timeout", RequestTimeout) EXCEPT !.timer = "fired"]

\* ------------------------------------------------------------------------
\* Route table (src/src/index.ts)
\* A route is [method, path, handler, middleware, hasMiddleware];
\* hasMiddleware = FALSE stands for route.middleware === undefined.
\* ------------------------------------------------------------------------
Route(method, path, handler) ==
    [method |-> method, path |-> path, handler |-> handler,
     middleware |-> <<>>, hasMiddleware |-> FALSE, params |-> <<>>]

RouteWithMiddleware(method, path, mws, handler) ==
    [method |-> method, path |-> path, handler |-> handler,
     middleware |-> mws, hasMiddleware |-> TRUE, params |-> <<>>]

\* ------------------------------------------------------------------------
\* Route groups (src/src/index.ts, group)
\* The callback of a group is user code that registers: it is the sequence
\* of the registrations it makes, each a command
\*   [op, path, middleware, callback]
\* with op "addRoute", "addRouteWithMiddleware", "use" (middleware holds the
\* one middleware) or "group" (path is the prefix).  An application is
\* [routes, middleware].
\* ------------------------------------------------------------------------
Command(op, path, mws, callback) ==
    [op |-> op, path |-> path, middleware |-> mws, callback |-> callback]

\* The forEach body of group with the lists joined the other way round
groupRouteOwnFirst(route, prefix, mws) ==
    [route EXCEPT !.path = IF IsRegExp(@) THEN @ ELSE prefix \o @,
                  !.middleware = @ \o mws,
                  !.hasMiddleware = TRUE]

\* group, lines 195-200: the forEach body, on one of the new routes
groupRoute(route, prefix, mws) ==
    [route EXCEPT !.path = IF IsRegExp(@) THEN @ ELSE prefix \o @,
                  !.middleware = mws \o @,
                  !.hasMiddleware = TRUE]

RECURSIVE group(_, _, _, _)
RECURSIVE runCallback(_, _)
\* routes(): the registrations of the callback, in order, up to its return
\* or to the statement that throws (op "throw")
runCallback(app, callback) ==
    IF callback = <<>> \/ app.threw THEN app
    ELSE LET c == Head(callback)
             app1 ==
               IF c.op = "addRoute"
               THEN [app EXCEPT !.routes = Append(@, Route("GET", c.path, "respond"))]
               ELSE IF c.op = "addRouteWithMiddleware"
               THEN [app EXCEPT !.routes =
                        Append(@, RouteWithMiddleware("GET", c.path, c.middleware,
                                                      "respond"))]
               ELSE IF c.op = "use"
               THEN [app EXCEPT !.middleware = @ \o c.middleware]
               ELSE IF c.op = "throw"
               THEN [app EXCEPT !.threw = TRUE]
               ELSE group(app, c.path, c.middleware, c.callback)
         IN  runCallback(app1, Tail(callback))

\* group, lines 193-201: what follows routes() when it returned
groupReturned(called, originalRoutes, originalMiddleware, prefix, mws) ==
    [routes |-> [k \in 1..Len(called.routes) |->
                    IF k > Len(originalRoutes)
                    THEN groupRoute(called.routes[k], prefix, mws)
                    ELSE called.routes[k]],
     middleware |-> originalMiddleware,
     threw |-> FALSE]

\* group(prefix, middleware, routes), lines 186-202.  An exception of
\* routes() leaves group at line 191: nothing after it is executed.
group(app, prefix, mws, callback) ==
    LET originalRoutes == app.routes
        originalMiddleware == app.middleware
        called == runCallback([app EXCEPT !.middleware = @ \o mws], callback)
    IN  IF called.threw THEN called
        ELSE groupReturned(called, originalRoutes, originalMiddleware, prefix, mws)

\* ------------------------------------------------------------------------
\* Parameter validators (src/src/index.ts, param / validateRouteParams)
\* route.params is kept as the sequence of its entries <<name, validator>>
\* in insertion order (the order of Object.entries); <<>> stands for an
\* undefined or empty route.params.
\* A ParamValidator returns true ("valid"), returns false ("invalid") or
\* throws ("throw").
\* ------------------------------------------------------------------------
ValidatorBehaviours == {"valid", "invalid", "throw"}

\* route.params[name] = validator
SetValidator(entries, name, validator) ==
    IF \E k \in 1..Len(entries) : entries[k][1] = name
    THEN [k \in 1..Len(entries) |->
             IF entries[k][1] = name THEN <<name, validator>> ELSE entries[k]]
    ELSE Append(entries, <<name, validator>>)

\* params[paramName] !== undefined
HasParam(params, name) == \E pr \in params : pr[1] = name

ValidationError(message, errors) ==
    SwiftError("ValidationError", message, 400, "VALIDATION_ERROR",
               [kind |-> "object", errors |-> errors, field |-> Undefined])

InvalidParameter(name) == <<"Invalid parameter:", name>>

ValidationThrew(name) == <<"Validation error for parameter", name>>

\* The outcome of validateRouteParams is [threw, error, log]; the validator
\* of entry k is logged as <<"validator", k>> when it is called.
ValidationOutcome(errors, lg) ==
    IF Len(errors) > 0
    THEN [threw |-> TRUE,
          error |-> ValidationError(<<"Parameter validation failed">>, errors),
          log |-> lg]
    ELSE [threw |-> FALSE, error |-> Undefined, log |-> lg]

\* validateRouteParams that gives up at the first failed validator
RECURSIVE validateFailFast(_, _, _, _, _)
validateFailFast(validators, k, params, errors, lg) ==
    IF k > Len(validators) \/ Len(errors) > 0 THEN ValidationOutcome(errors, lg)
    ELSE IF ~HasParam(params, validators[k][1])
         THEN validateFailFast(validators, k + 1, params, errors, lg)
    ELSE LET lg1 == Append(lg, <<"validator", k>>)
             name == validators[k][1]
         IN
         IF validators[k][2] = "invalid"
         THEN validateFailFast(validators, k + 1, params,
                  Append(errors, InvalidParameter(name)), lg1)
         ELSE IF validators[k][2] = "throw"
         THEN validateFailFast(validators, k + 1, params,
                  Append(errors, ValidationThrew(name)), lg1)
         ELSE validateFailFast(validators, k + 1, params, errors, lg1)

\* Lines 316-332: the loop over Object.entries(validators), then the throw.
RECURSIVE validateLoop(_, _, _, _, _)
validateLoop(validators, k, params, errors, lg) ==
    IF k > Len(validators) THEN ValidationOutcome(errors, lg)
    ELSE IF ~HasParam(params, validators[k][1])
         THEN validateLoop(validators, k + 1, params, errors, lg)
    ELSE LET lg1 == Append(lg, <<"validator", k>>)
             name == validators[k][1]
         IN
         IF validators[k][2] = "invalid"
         THEN validateLoop(validators, k + 1, params,
                  Append(errors, InvalidParameter(name)), lg1)
         ELSE IF validators[k][2] = "throw"
         THEN validateLoop(validators, k + 1, params,
                  Append(errors, ValidationThrew(name)), lg1)
         ELSE validateLoop(validators, k + 1, params, errors, lg1)

validateRouteParams(validators, k, params, errors, lg) ==
    validateLoop(validators, k, params, errors, lg)

\* findRoute without the test of the pattern: the first route of the method
findRouteAnyPath(rs, method, path) ==
    LET sameMethod == {k \in 1..Len(rs) : rs[k].method = method} IN
    [threw |-> FALSE,
     route |-> IF sameMethod = {} THEN 0
               ELSE CHOOSE k \in sameMethod : \A j \in sameMethod : k <= j,
     routes |-> rs]

\* The route table after enhancedMatchRoute was called on route k with
\* the result m: a RegExp path is the object the call left behind.
AfterMatch(rs, k, m) ==
    IF IsRegExp(rs[k].path) THEN [rs EXCEPT ![k].path = m.pattern] ELSE rs

\* findRoute: route = 0 stands for null; threw = TRUE for an exception of
\* enhancedMatchRoute leaving the loop; routes is the route table after
\* the calls of the loop.
RECURSIVE findRouteFrom(_, _, _, _)
\* One turn of the loop of findRoute on a route of the method, m being the
\* result of enhancedMatchRoute
findRouteMatched(rs, k, method, path, m) ==
    IF m.threw THEN [threw |-> TRUE, route |-> 0, routes |-> rs]
    ELSE IF m.matches
         THEN [threw |-> FALSE, route |-> k, routes |-> AfterMatch(rs, k, m)]
    ELSE findRouteFrom(AfterMatch(rs, k, m), k + 1, method, path)

findRouteFrom(rs, k, method, path) ==
    IF k > Len(rs) THEN [threw |-> FALSE, route |-> 0, routes |-> rs]
    ELSE IF rs[k].method = method
         THEN findRouteMatched(rs, k, method, path,
                               enhancedMatchRoute(rs[k].path, path))
    ELSE findRouteFrom(rs, k + 1, method, path)

findRoute(rs, method, path) == findRouteFrom(rs, 1, method, path)

\* ------------------------------------------------------------------------
\* handleRequest: the try block (src/src/index.ts:272-307)
\* ------------------------------------------------------------------------
FreshDispatch ==
    [index |-> InitialIndex, res |-> FreshResponse, log |-> <<>>, unhandled |-> <<>>]

TryResult(threw, error, st, params, route, id) ==
    [threw |-> threw, error |-> error, st |-> st, params |-> params,
     route |-> route, id |-> id]

afterGlobal(route, g, params, k) ==
    IF g.threw THEN TryResult(TRUE, g.error, g.st, params, k, "id")
    ELSE IF g.st.res.headersSent
         THEN TryResult(FALSE, Undefined, g.st, params, k, "id")
    ELSE LET r == IF route.hasMiddleware
                  THEN executeMiddleware(route.middleware, "route", g.st)
                  ELSE Returned(g.st)
         IN
         IF r.threw THEN TryResult(TRUE, r.error, r.st, params, k, "id")
         ELSE IF route.hasMiddleware /\ r.st.res.headersSent
              THEN TryResult(FALSE, Undefined, r.st, params, k, "id")
         ELSE LET h == executeHandler(route.handler, r.st) IN
              TryResult(h.threw, h.error, h.st, params, k, "id")

\* The result of the try block with the route table it leaves
TryResultRoutes(t, rs) ==
    [threw |-> t.threw, error |-> t.error, st |-> t.st, params |-> t.params,
     route |-> t.route, id |-> t.id, routes |-> rs]

\* The try block from line 285 on: f is the result of findRoute and m the
\* result of the second enhancedMatchRoute call, on the route found.
handleRequestMatched(f, m, globalMiddleware) ==
    LET route == f.routes[f.route]
        rs1 == AfterMatch(f.routes, f.route, m)
    IN
    IF m.threw
    THEN TryResultRoutes(
             TryResult(TRUE, URIError, FreshDispatch, {}, f.route, "id"), rs1)
    ELSE LET v == IF route.params # <<>>
                  THEN validateRouteParams(route.params, 1, m.params, <<>>, <<>>)
                  ELSE ValidationOutcome(<<>>, <<>>)
             st == [FreshDispatch EXCEPT !.log = v.log]
         IN
         IF v.threw
         THEN TryResultRoutes(
                  TryResult(TRUE, v.error, st, m.params, f.route, "id"), rs1)
         ELSE TryResultRoutes(
                  afterGlobal(route,
                      executeMiddleware(globalMiddleware, "global", st),
                      m.params, f.route),
                  rs1)

\* The try block from line 279 on: f is the result of findRoute.
handleRequestFound(f, request, globalMiddleware) ==
    IF f.threw
    THEN TryResultRoutes(
             TryResult(TRUE, URIError, FreshDispatch, {}, 0, "id"), f.routes)
    ELSE IF f.route = 0
         THEN TryResultRoutes(
                  TryResult(TRUE,
                      NotFoundError(<<"Cannot", request.method, request.path>>),
                      FreshDispatch, {}, 0, "id"),
                  f.routes)
    ELSE handleRequestMatched(f,
             enhancedMatchRoute(f.routes[f.route].path, request.path),
             globalMiddleware)

handleRequestTry(request, rs, globalMiddleware) ==
    LET e == enhanceRequest(request) IN
    IF e.threw
    THEN TryResultRoutes(
             TryResult(TRUE, e.error, FreshDispatch, {}, 0, "undefined"), rs)
    ELSE handleRequestFound(findRoute(rs, request.method, request.path),
                            request, globalMiddleware)

\* ------------------------------------------------------------------------
\* handleError (src/src/index.ts:393-479)
\* ------------------------------------------------------------------------
\* JavaScript truthiness of error.details: objects and arrays are truthy;
\* undefined, and the scalars 0, '', false and null ("falsy"), are not.
Truthy(v) == v.kind = "object"

GenericPhrase == <<"Internal Server Error">>

\* formatErrorResponse without the status test on the details
formatErrorResponseLeaky(error, request, isDevelopment) ==
    IF isDevelopment
    THEN [kind |-> "error", error |-> error.message, status |-> error.statusCode,
          code |-> error.code, timestamp |-> "now", details |-> error.details,
          stack |-> error.stack,
          request |-> [kind |-> "object", method |-> request.method,
                       path |-> request.path]]
    ELSE [kind |-> "error",
          error |-> IF error.statusCode >= 500 THEN GenericPhrase ELSE error.message,
          status |-> error.statusCode,
          code |-> "undefined", timestamp |-> "now",
          details |-> IF Truthy(error.details) THEN error.details ELSE Undefined,
          stack |-> "undefined",
          request |-> Undefined]

formatErrorResponse(error, request, isDevelopment) ==
    IF isDevelopment
    THEN [kind |-> "error", error |-> error.message, status |-> error.statusCode,
          code |-> error.code, timestamp |-> "now", details |-> error.details,
          stack |-> error.stack,
          request |-> [kind |-> "object", method |-> request.method,
                       path |-> request.path]]
    ELSE [kind |-> "error",
          error |-> IF error.statusCode >= 500 THEN GenericPhrase ELSE error.message,
          status |-> error.statusCode,
          code |-> "undefined", timestamp |-> "now",
          details |-> IF error.statusCode < 500 /\ Truthy(error.details)
                      THEN error.details ELSE Undefined,
          stack |-> "undefined",
          request |-> Undefined]

\* The default JSON error body as lines 426-441 write it.
writeErrorResponse(error, request, id, env, duration) ==
    LET isDevelopment == env # "production"
        errorResponse == formatErrorResponse(error, request, isDevelopment)
    IN [headersSent |-> TRUE, statusCode |-> error.statusCode,
        body |-> [kind |-> "default", response |-> errorResponse,
                  requestId |-> id,
                  duration |-> IF duration > 0 THEN "ms" ELSE "undefined"]]

\* Lines 425-442 without the test of res.headersSent
defaultErrorResponseUnguarded(response, error, request, id, env, duration) ==
    writeErrorResponse(error, request, id, env, duration)

\* Lines 425-442: the default JSON error body, written if nothing was sent.
defaultErrorResponse(response, error, request, id, env, duration) ==
    IF ~response.headersSent
    THEN writeErrorResponse(error, request, id, env, duration)
    ELSE response

\* CompositeErrorReporter.report (errors.ts:229-237): reporters.map calls
\* each report in order and wraps what it returns in Promise.resolve(...)
\* .catch(log).  A report that throws synchronously throws out of the map
\* callback, so the later reporters are not called and the promise of the
\* async report rejects.  The reporters are logged as <<"reporter", i>>, the
\* catch of a rejected one as <<"console.error", 2>>, after the map.
\* An outcome is [failed, log].
RECURSIVE compositeReport(_, _, _, _)
compositeReport(reporters, i, rejected, lg) ==
    LET caught == [j \in 1..rejected |-> <<"console.error", 2>>] IN
    IF i > Len(reporters) THEN [failed |-> FALSE, log |-> lg \o caught]
    ELSE LET lg1 == Append(lg, <<"reporter", i>>) IN
         IF reporters[i] = "throw" THEN [failed |-> TRUE, log |-> lg1 \o caught]
         ELSE compositeReport(reporters, i + 1,
                  IF reporters[i] = "reject" THEN rejected + 1 ELSE rejected, lg1)

\* this.errorReporter.report(swiftError, context), awaited: failed when it
\* throws or rejects.  A plain reporter is logged as <<"reporter", 0>>.
report(reporter, lg) ==
    IF reporter.kind = "composite"
    THEN compositeReport(reporter.reporters, 1, 0, lg)
    ELSE [failed |-> reporter.report # "ok", log |-> Append(lg, <<"reporter", 0>>)]

\* Lines 405-409: the reporter runs inside a try block; a reporter that
\* throws or rejects is caught and logged with console.error.
reportError(reporter, lg) ==
    LET r == report(reporter, lg) IN
    IF r.failed THEN Append(r.log, <<"console.error", 0>>) ELSE r.log

\* Lines 411-423: the registered error handlers in order, then the global
\* one, all inside one try block whose catch logs with console.error.
\* An outcome is [res, log].
RECURSIVE runErrorHandlers(_, _, _, _, _)
runErrorHandlers(handlers, i, global, response, lg) ==
    IF i <= Len(handlers) THEN
        LET lg1 == Append(lg, <<"errorHandler", i>>) IN
        IF handlers[i] = "throw"
        THEN [res |-> response, log |-> Append(lg1, <<"console.error", 1>>)]
        ELSE IF handlers[i] = "respond"
             THEN runErrorHandlers(handlers, i + 1, global,
                      ResEnd(response, 500, UserBody("errorHandler", i)), lg1)
        ELSE runErrorHandlers(handlers, i + 1, global, response, lg1)
    ELSE IF global # "null" THEN
        LET lg1 == Append(lg, <<"globalErrorHandler", 0>>) IN
        IF global = "respond"
        THEN [res |-> ResEnd(response, 500, UserBody("globalErrorHandler", 0)),
              log |-> lg1]
        ELSE IF global = "throw"
        THEN [res |-> response, log |-> Append(lg1, <<"console.error", 1>>)]
        ELSE [res |-> response, log |-> lg1]
    ELSE [res |-> response, log |-> lg]

\* ------------------------------------------------------------------------
\* State
\* ------------------------------------------------------------------------
VARIABLES
    phase,              \* "setup" until listen(), then "serving"
    middleware,         \* this.middleware
    routes,             \* this.routes
    errorHandlers,      \* this.errorHandlers
    globalErrorHandler, \* this.globalErrorHandler ("null" when unset)
    errorReporter,      \* this.errorReporter
    nodeEnv,            \* process.env.NODE_ENV
    pc,                 \* position of the request being handled
    req,                \* the request: [method, path, stream]
    reqId,              \* req.id
    reqParams,          \* req.params
    matched,            \* index of the route findRoute returned, 0 for none
    res,                \* the response
    thrown,             \* the value caught by handleRequest
    swiftError,         \* normaliseError(thrown)
    log,                \* user code invoked for the request, in order
    unhandled,          \* rejections nobody awaited
    reader,             \* the body reader of an enhanceRequest call
    routeCache,         \* the entries of the RouteCache of the routing mixin
    now                 \* Date.now()

vars == <<phase, middleware, routes, errorHandlers, globalErrorHandler,
          errorReporter, nodeEnv, pc, req, reqId, reqParams, matched, res,
          thrown, swiftError, log, unhandled, reader, routeCache, now>>

appVars == <<middleware, routes, errorHandlers, globalErrorHandler, errorReporter>>

requestVars == <<req, reqId, reqParams, matched, res, thrown, swiftError, log,
                 unhandled, reader>>

NoRequest == [method |-> "none", path |-> <<>>, stream |-> EmptyStream]

Methods == {"GET", "POST"}

NodeEnvs == {"production", "development"}

\* The state after new SwiftHTTP(): no routes, no middleware, a console
\* reporter; no request is being handled.
Constructed ==
    /\ phase = "setup"
    /\ middleware = <<>>
    /\ routes = <<>>
    /\ errorHandlers = <<>>
    /\ globalErrorHandler = "null"
    /\ errorReporter = ConsoleErrorReporter
    /\ pc = "idle"
    /\ req = NoRequest
    /\ reqId = "undefined"
    /\ reqParams = {}
    /\ matched = 0
    /\ res = FreshResponse
    /\ thrown = Undefined
    /\ swiftError = Undefined
    /\ log = <<>>
    /\ unhandled = <<>>
    /\ reader = IdleReader
    /\ routeCache = {}
    /\ now = 0

Init == nodeEnv = "development" /\ Constructed

InitEnv == nodeEnv \in NodeEnvs /\ Constructed

\* ------------------------------------------------------------------------
\* Registration (before listen)
\* ------------------------------------------------------------------------
use(mw) ==
    /\ phase = "setup"
    /\ Len(middleware) < MaxGlobal
    /\ middleware' = Append(middleware, mw)
    /\ UNCHANGED <<phase, routes, errorHandlers, globalErrorHandler, errorReporter,
                   nodeEnv, routeCache, now, pc, requestVars>>

addRoute(method, path, handler, bound) ==
    /\ phase = "setup"
    /\ Len(routes) < bound
    /\ routes' = Append(routes, Route(method, path, handler))
    /\ UNCHANGED <<phase, middleware, errorHandlers, globalErrorHandler,
                   errorReporter, nodeEnv, routeCache, now, pc, requestVars>>

addRouteWithMiddleware(method, path, mws, handler, bound) ==
    /\ phase = "setup"
    /\ Len(routes) < bound
    /\ routes' = Append(routes, RouteWithMiddleware(method, path, mws, handler))
    /\ UNCHANGED <<phase, middleware, errorHandlers, globalErrorHandler,
                   errorReporter, nodeEnv, routeCache, now, pc, requestVars>>

\* param(name, validator): attached to the routes registered so far whose
\* string pattern contains ':name'
param(name, validator) ==
    /\ phase = "setup"
    /\ routes' = [k \in 1..Len(routes) |->
                    IF ~IsRegExp(routes[k].path)
                       /\ includesStr(routes[k].path, <<":">> \o name)
                    THEN [routes[k] EXCEPT !.params = SetValidator(@, name, validator)]
                    ELSE routes[k]]
    /\ UNCHANGED <<phase, middleware, errorHandlers, globalErrorHandler,
                   errorReporter, nodeEnv, routeCache, now, pc, requestVars>>

\* group(prefix, middleware, callback), on an application whose routes were
\* registered one by one
Group(prefix, mws, callback) ==
    /\ phase = "setup"
    /\ Len(routes) < MaxRoutes
    /\ Len(middleware) <= MaxGlobal
    /\ \A k \in 1..Len(routes) : ~routes[k].hasMiddleware
    /\ LET app == group([routes |-> routes, middleware |-> middleware,
                         threw |-> FALSE],
                        prefix, mws, callback)
       IN  /\ routes' = app.routes
           /\ middleware' = app.middleware
    /\ UNCHANGED <<phase, errorHandlers, globalErrorHandler, errorReporter,
                   nodeEnv, routeCache, now, pc, requestVars>>

addErrorHandler(handler) ==
    /\ phase = "setup"
    /\ Len(errorHandlers) < MaxErrorHandlers
    /\ errorHandlers' = Append(errorHandlers, handler)
    /\ UNCHANGED <<phase, middleware, routes, globalErrorHandler, errorReporter,
                   nodeEnv, routeCache, now, pc, requestVars>>

setErrorHandler(handler) ==
    /\ phase = "setup"
    /\ globalErrorHandler' = handler
    /\ UNCHANGED <<phase, middleware, routes, errorHandlers, errorReporter,
                   nodeEnv, routeCache, now, pc, requestVars>>

setErrorReporter(reporter) ==
    /\ phase = "setup"
    /\ errorReporter' = reporter
    /\ UNCHANGED <<phase, middleware, routes, errorHandlers, globalErrorHandler,
                   nodeEnv, routeCache, now, pc, requestVars>>

listen ==
    /\ phase = "setup"
    /\ phase' = "serving"
    /\ UNCHANGED <<appVars, nodeEnv, routeCache, now, pc, requestVars>>

\* ------------------------------------------------------------------------
\* Serving one request
\* ------------------------------------------------------------------------
\* The createServer callback: a request arrives and handleRequest starts.
Request(method, path, stream) ==
    /\ phase = "serving"
    /\ pc = "idle"
    /\ pc' = "try"
    /\ req' = [method |-> method, path |-> path, stream |-> stream]
    /\ UNCHANGED <<phase, appVars, nodeEnv, routeCache, now, reqId, reqParams, matched, res,
                   thrown, swiftError, log, unhandled, reader>>

\* handleRequest, lines 272-307: the try block up to its return or throw.
handleRequest ==
    /\ pc = "try"
    /\ LET t == handleRequestTry(req, routes, middleware) IN
        /\ res' = t.st.res
        /\ log' = t.st.log
        /\ unhandled' = t.st.unhandled
        /\ reqParams' = t.params
        /\ reqId' = t.id
        /\ matched' = t.route
        /\ thrown' = t.error
        /\ routes' = t.routes
        /\ pc' = IF t.threw THEN "report" ELSE "done"
    /\ UNCHANGED <<phase, middleware, errorHandlers, globalErrorHandler,
                   errorReporter, nodeEnv, routeCache, now, req, swiftError, reader>>

\* handleError, lines 394-409: normalise, then report (a failing reporter
\* is caught and logged).
handleErrorReport ==
    /\ pc = "report"
    /\ swiftError' = normaliseError(thrown)
    /\ log' = reportError(errorReporter, log)
    /\ pc' = "handlers"
    /\ UNCHANGED <<phase, appVars, nodeEnv, routeCache, now, req, reqId, reqParams, matched, res,
                   thrown, unhandled, reader>>

\* handleError, lines 411-423
handleErrorHandlers ==
    /\ pc = "handlers"
    /\ LET r == runErrorHandlers(errorHandlers, 1, globalErrorHandler, res, log) IN
        /\ res' = r.res
        /\ log' = r.log
    /\ pc' = "respond"
    /\ UNCHANGED <<phase, appVars, nodeEnv, routeCache, now, req, reqId, reqParams, matched,
                   thrown, swiftError, unhandled, reader>>

\* Date.now() - startTime, in milliseconds, as far as the code tells it apart
Durations == {0, 1}

\* handleError, lines 425-442
handleErrorRespond ==
    /\ pc = "respond"
    /\ \E duration \in Durations :
         res' = defaultErrorResponse(res, swiftError, req, reqId, nodeEnv, duration)
    /\ pc' = "done"
    /\ UNCHANGED <<phase, appVars, nodeEnv, routeCache, now, req, reqId, reqParams, matched,
                   thrown, swiftError, log, unhandled, reader>>

\* The request is over; the server waits for the next one.
Finish ==
    /\ pc = "done"
    /\ pc' = "idle"
    /\ req' = NoRequest
    /\ reqId' = "undefined"
    /\ reqParams' = {}
    /\ matched' = 0
    /\ res' = FreshResponse
    /\ thrown' = Undefined
    /\ swiftError' = Undefined
    /\ log' = <<>>
    /\ unhandled' = <<>>
    /\ UNCHANGED <<phase, appVars, nodeEnv, routeCache, now, reader>>

\* ------------------------------------------------------------------------
\* Reading one request body
\* ------------------------------------------------------------------------
serverVars == <<phase, appVars, nodeEnv, routeCache, now, pc, req, reqId, reqParams, matched, res,
                thrown, swiftError, log, unhandled>>

\* enhanceRequest(req, parsingOptions) is called on a request.
EnhanceRequest(method, contentType, multipart, declared, payload) ==
    /\ reader.stage = "idle"
    /\ pc = "idle"
    /\ reader' = enhanceRequestCall(method, contentType, multipart, declared, payload)
    /\ UNCHANGED serverVars

\* enhanceRequest(req, parsingOptions) is called with the given options.
EnhanceRequestOptions(method, contentType, parsingOptions, declared, payload) ==
    /\ reader.stage = "idle"
    /\ pc = "idle"
    /\ reader' = enhanceRequestOptions(method, contentType, parsingOptions,
                                       declared, payload)
    /\ UNCHANGED serverVars

\* The stream emits 'data' with a chunk of the given length.
Data(size) ==
    /\ reader.attached
    /\ ~reader.ended
    /\ reader.consumed < MaxChunks
    /\ reader' = onData(reader, size)
    /\ UNCHANGED serverVars

\* The stream emits 'end'.
End ==
    /\ reader.attached
    /\ ~reader.ended
    /\ reader' = onEnd(reader)
    /\ UNCHANGED serverVars

\* The stream emits 'error'.
StreamError ==
    /\ reader.attached
    /\ ~reader.ended
    /\ reader' = onError(reader)
    /\ UNCHANGED serverVars

\* The 30 second timer fires.
Timeout ==
    /\ reader.timer = "armed"
    /\ reader' = onTimeout(reader)
    /\ UNCHANGED serverVars

\* handleRequest, lines 273 and 308-309: await enhanceRequest(req) threw and
\* the catch hands the error to handleError.
enhanceRequestThrew ==
    /\ pc = "idle"
    /\ reader.outcome = "threw"
    /\ req' = [method |-> reader.method, path |-> Str_u, stream |-> EmptyStream]
    /\ thrown' = reader.value
    /\ pc' = "report"
    /\ UNCHANGED <<phase, appVars, nodeEnv, routeCache, now, reqId, reqParams, matched, res,
                   swiftError, log, unhandled, reader>>

Serve ==
    \/ handleRequest
    \/ handleErrorReport
    \/ handleErrorHandlers
    \/ handleErrorRespond
    \/ Finish

\* ------------------------------------------------------------------------
\* Specifications
\* ------------------------------------------------------------------------
\* All lists of length at most n over the set S
ListsUpTo(S, n) == UNION {[1..k -> S] : k \in 0..n}

\* Spec: the dispatch pipeline.  Any global middleware, one route with or
\* without route-scoped middleware, default error handling.
MaxDispatchRoutes == 1

DispatchPaths == {Str_u, Str_v}

Next ==
    \/ \E mw \in MwBehaviours : use(mw)
    \/ \E m \in Methods, h \in HandlerBehaviours :
           addRoute(m, Str_u, h, MaxDispatchRoutes)
    \/ \E m \in Methods, h \in HandlerBehaviours,
          mws \in ListsUpTo(MwBehaviours, MaxRouteMw) :
           addRouteWithMiddleware(m, Str_u, mws, h, MaxDispatchRoutes)
    \/ listen
    \/ \E m \in Methods, p \in DispatchPaths, s \in Streams :
           /\ (m \notin methodsWithBody => s = EmptyStream)
           /\ Request(m, p, s)
    \/ Serve

Spec == Init /\ [][Next]_vars

\* SpecRoute: route lookup.  Several routes of every pattern kind, requests
\* on paths that match none, one or several of them, handlers that respond.
RoutePatterns == {Str_u, Str_param, Str_uparam, Str_wild, Str_optional}

RoutePaths == {Str_u, Str_v, Str_uv, Str_bad, Str_ubad, Str_enc}

NextRoute ==
    \/ use("next")
    \/ \E m \in Methods, p \in RoutePatterns : addRoute(m, p, "respond", MaxRoutes)
    \/ listen
    \/ \E m \in Methods, p \in RoutePaths, s \in Streams :
           /\ (m \notin methodsWithBody => s = EmptyStream)
           /\ Request(m, p, s)
    \/ Serve

SpecRoute == Init /\ [][NextRoute]_vars

\* SpecError: the error pipeline.  Any error handlers, global error handler
\* and reporter, in either mode; requests that end in an error.
NextError ==
    \/ \E h \in ErrorHandlerBehaviours : addErrorHandler(h)
    \/ \E h \in ErrorHandlerBehaviours : setErrorHandler(h)
    \/ \E r \in ReporterBehaviours : setErrorReporter(Reporter(r))
    \/ addRoute("GET", Str_u, "respond", MaxDispatchRoutes)
    \/ listen
    \/ \E m \in Methods, p \in DispatchPaths, s \in Streams :
           /\ (m \notin methodsWithBody => s = EmptyStream)
           /\ Request(m, p, s)
    \/ Serve

SpecError == InitEnv /\ [][NextError]_vars

\* SpecParam: parameter validators.  Routes with one or two parameters,
\* validators of every behaviour attached to them, global middleware.
ParamPatterns == {Str_two, Str_optional}

ParamPaths == {Str_u, Str_uv}

NextParam ==
    \/ use("next")
    \/ \E p \in ParamPatterns : addRoute("GET", p, "respond", MaxDispatchRoutes)
    \/ \E n \in {Name_x, Name_y}, v \in ValidatorBehaviours : param(n, v)
    \/ listen
    \/ \E p \in ParamPaths : Request("GET", p, EmptyStream)
    \/ Serve

SpecParam == Init /\ [][NextParam]_vars

\* SpecBody: the body reader.  One enhanceRequest call on a request of any
\* method, content type and declared length, with or without the multipart
\* option; the stream then emits chunks, ends or fails, and the timer may
\* fire; a failed read goes through the error pipeline.
DeclaredLengths == {0, LimitBytes, LimitBytes + 1}

ChunkSizes == {0, 4, LimitBytes}

LargestChunk == LimitBytes

NextBody ==
    \/ \E m \in Methods, ct \in ContentTypes, mp \in BOOLEAN,
          d \in DeclaredLengths, pl \in Payloads :
           EnhanceRequest(m, ct, mp, d, pl)
    \/ \E size \in ChunkSizes : Data(size)
    \/ End
    \/ StreamError
    \/ Timeout
    \/ enhanceRequestThrew
    \/ handleErrorReport
    \/ handleErrorHandlers
    \/ handleErrorRespond

SpecBody == Init /\ [][NextBody]_vars

\* SpecReporter: error reporting.  A plain or a composite reporter of any
\* behaviour, error handlers that pass or respond, requests that end in the
\* error pipeline (no route is registered).
ReporterPaths == {Str_u}

NextReporter ==
    \/ \E r \in ReporterBehaviours : setErrorReporter(Reporter(r))
    \/ \E rs \in ListsUpTo(ReporterBehaviours, MaxReporters) :
           setErrorReporter(CompositeErrorReporter(rs))
    \/ \E h \in {"pass", "respond"} : addErrorHandler(h)
    \/ listen
    \/ \E m \in Methods, p \in ReporterPaths, s \in Streams :
           /\ (m \notin methodsWithBody => s = EmptyStream)
           /\ Request(m, p, s)
    \/ Serve

SpecReporter == Init /\ [][NextReporter]_vars

\* SpecFormat: formatErrorResponse and the default body on typed errors of
\* every shape, as handleError holds them once the error handlers have run
\* without answering.
ErrorStatuses == {400, 404, 500, 503}

ErrorMessages == {<<"Invalid token ab12">>, <<"connect ECONNREFUSED db:5432">>}

ErrorCodes == {"undefined", "E_CUSTOM"}

ErrorDetails ==
    {Undefined, [kind |-> "falsy"],
     [kind |-> "object", originalError |-> [kind |-> "string", value |-> "Error"]],
     [kind |-> "object", errors |-> <<"Invalid parameter: x">>]}

ErrorInputs ==
    {SwiftError("SwiftError", m, sc, c, d) :
        m \in ErrorMessages, sc \in ErrorStatuses, c \in ErrorCodes,
        d \in ErrorDetails}

InitFormat ==
    /\ nodeEnv \in NodeEnvs
    /\ phase = "serving"
    /\ middleware = <<>>
    /\ routes = <<>>
    /\ errorHandlers = <<>>
    /\ globalErrorHandler = "null"
    /\ errorReporter = ConsoleErrorReporter
    /\ pc = "respond"
    /\ req = [method |-> "GET", path |-> Str_u, stream |-> EmptyStream]
    /\ reqId = "id"
    /\ reqParams = {}
    /\ matched = 0
    /\ res = FreshResponse
    /\ swiftError \in ErrorInputs
    /\ thrown = swiftError
    /\ log = << <<"reporter", 0>> >>
    /\ unhandled = <<>>
    /\ reader = IdleReader
    /\ routeCache = {}
    /\ now = 0

NextFormat == handleErrorRespond

SpecFormat == InitFormat /\ [][NextFormat]_vars

\* SpecNormalise: handleError on every kind of caught value: typed errors,
\* generic errors (Error and its built-in subclasses) and values that are
\* not errors (throw 'boom', throw 42, throw null).
GenericErrors ==
    {GenericError(n, m) : n \in {"Error", "TypeError"}, m \in ErrorMessages}

NonErrorValues ==
    {[kind |-> "string", value |-> "boom"], [kind |-> "number", value |-> "42"],
     [kind |-> "null"]}

CaughtValues == ErrorInputs \cup GenericErrors \cup NonErrorValues

InitNormalise ==
    /\ nodeEnv \in NodeEnvs
    /\ phase = "serving"
    /\ middleware = <<>>
    /\ routes = <<>>
    /\ errorHandlers = <<>>
    /\ globalErrorHandler = "null"
    /\ errorReporter = ConsoleErrorReporter
    /\ pc = "report"
    /\ req = [method |-> "GET", path |-> Str_u, stream |-> EmptyStream]
    /\ reqId = "id"
    /\ reqParams = {}
    /\ matched = 0
    /\ res = FreshResponse
    /\ thrown \in CaughtValues
    /\ swiftError = Undefined
    /\ log = <<>>
    /\ unhandled = <<>>
    /\ reader = IdleReader
    /\ routeCache = {}
    /\ now = 0

NextNormalise ==
    \/ handleErrorReport
    \/ handleErrorHandlers
    \/ handleErrorRespond

SpecNormalise == InitNormalise /\ [][NextNormalise]_vars

\* ------------------------------------------------------------------------
\* The dispatch pipeline of the request being handled
\* ------------------------------------------------------------------------
\* The stages the matched route's request goes through, in order: the
\* global middleware, the route-scoped middleware, the handler.
Stage(chain, i, behaviour) == [tag |-> <<chain, i>>, b |-> behaviour]

Pipeline ==
    [i \in 1..Len(middleware) |-> Stage("global", i - 1, middleware[i])]
    \o [i \in 1..Len(routes[matched].middleware) |->
           Stage("route", i - 1, routes[matched].middleware[i])]
    \o << Stage("handler", 0, routes[matched].handler) >>

MiddlewareCount == Len(Pipeline) - 1

IsDispatchEntry(e) == e[1] \in {"global", "route", "handler"}

\* The stages invoked for the request, in order of invocation
DispatchLog == SelectSeq(log, IsDispatchEntry)

Count(tag) == Cardinality({i \in 1..Len(DispatchLog) : DispatchLog[i] = tag})

Before(a, b) ==
    \E i, j \in 1..Len(DispatchLog) :
        i < j /\ DispatchLog[i] = a /\ DispatchLog[j] = b

\* Exactly the first k stages were invoked, each once, in pipeline order.
RanExactly(k) == DispatchLog = [j \in 1..k |-> Pipeline[j].tag]

\* A middleware that calls its continuation exactly once
Continues(b) == b \in {"next", "nextNoAwait"}

\* A matched request whose handling is over
MatchedDone == pc = "done" /\ matched # 0

\* C1: in a dispatch in which every middleware calls its continuation
\* exactly once (the empty list included), every middleware is invoked
\* exactly once in list order, the dispatch raises no error, and the
\* handler of the matched route is then invoked exactly once.
C1_AllContinueReachesHandler ==
    (MatchedDone /\ \A k \in 1..MiddlewareCount : Continues(Pipeline[k].b))
    => (RanExactly(Len(Pipeline)) /\ thrown # NextCalledError)

C5_RespondingMiddlewareEndsPipeline ==
    \A k \in 1..(IF matched # 0 THEN MiddlewareCount ELSE 0) :
        (/\ pc = "done"
         /\ Pipeline[k].b = "respond"
         /\ \A j \in 1..(k - 1) : Continues(Pipeline[j].b))
        => /\ RanExactly(k)
           /\ thrown = Undefined
           /\ res.body = [kind |-> "user", by |-> Pipeline[k].tag]

\* The failure a stage raises when it throws
FailureOf(stage) ==
    IF stage.tag[1] = "handler" THEN HandlerFailure ELSE MiddlewareFailure

\* C6: a failure thrown by a middleware at any position, or by the
\* handler, is caught and handed to the error normaliser and the request
\* receives the error response for it, also when an earlier middleware did
\* not await its continuation.
C6_StageFailureReachesNormaliser ==
    \A k \in 1..(IF matched # 0 THEN Len(Pipeline) ELSE 0) :
        (/\ pc = "done"
         /\ Pipeline[k].b = "throw"
         /\ \A j \in 1..(k - 1) : Continues(Pipeline[j].b))
        => /\ thrown = FailureOf(Pipeline[k])
           /\ swiftError = normaliseError(FailureOf(Pipeline[k]))
           /\ res.body.kind = "default"
           /\ res.statusCode = swiftError.statusCode

\* ------------------------------------------------------------------------
\* Route lookup
\* ------------------------------------------------------------------------
\* The pattern matches the path: the matcher returns, and says so.
Matches(pattern, path) ==
    LET m == enhancedMatchRoute(pattern, path) IN ~m.threw /\ m.matches

\* The routes of the request's method whose pattern matches its path
Candidates ==
    {k \in 1..Len(routes) :
        routes[k].method = req.method /\ Matches(routes[k].path, req.path)}

\* The first of them in registration order; 0 when there is none
FirstMatching ==
    IF Candidates = {} THEN 0
    ELSE CHOOSE k \in Candidates : \A j \in Candidates : k <= j

\* C7: route lookup returns the first route in registration order whose
\* method equals the request's and whose pattern matches the path, and none
\* when there is no such route; an earlier route shadows a later one.
C7_FirstMatchWins ==
    reqId = "id" => (thrown # URIError /\ matched = FirstMatching)

\* No route of the request's method matches its path.
NoRouteMatches ==
    \A k \in 1..Len(routes) :
        routes[k].method = req.method
        => LET m == enhancedMatchRoute(routes[k].path, req.path) IN
           ~m.threw /\ ~m.matches

\* The body of the request, if its method carries one, was read.
BodyRead == ~enhanceRequest(req).threw

\* The not-found error was raised and answered with status 404, and no
\* middleware and no handler was invoked.
NotFoundResponse ==
    /\ thrown = NotFoundError(<<"Cannot", req.method, req.path>>)
    /\ res.headersSent
    /\ res.statusCode = 404
    /\ res.body.kind = "default"
    /\ res.body.response.status = 404
    /\ DispatchLog = <<>>

C9_ExactlyOneErrorResponse ==
    [][pc = "respond" =>
         /\ res'.headersSent
         /\ (res' # res) <=> ~res.headersSent
         /\ res.headersSent => res' = res
         /\ ~res.headersSent =>
              /\ res'.body.kind = "default"
              /\ res'.statusCode = swiftError.statusCode]_vars

\* The reporter failed and the first error handler threw, so the second
\* never ran, and the default body was written.
C9_Witness ==
    /\ pc = "done"
    /\ errorReporter = Reporter("throw")
    /\ Len(errorHandlers) = 2
    /\ errorHandlers[1] = "throw"
    /\ errorHandlers[2] = "respond"
    /\ res.headersSent
    /\ res.body.kind = "default"

\* The parts of C10 that do not depend on the details of a 4xx error: in
\* production the default body holds no stack and no request snapshot; for
\* status >= 500 its message is the generic phrase and the body is the one
\* any other error of that status gives; for status < 500 the message is
\* the error's.
ProductionBodyWithholds(b) ==
    /\ b.stack = "undefined"
    /\ b.request = Undefined
    /\ swiftError.statusCode >= 500 =>
         /\ b.error = GenericPhrase
         /\ b.details = Undefined
         /\ \A e \in ErrorInputs :
              e.statusCode = swiftError.statusCode
              => formatErrorResponse(e, req, FALSE) = b
    /\ swiftError.statusCode < 500 => b.error = swiftError.message

ProductionDone ==
    pc = "done" /\ nodeEnv = "production" /\ res.body.kind = "default"

C11_DefaultBodyCarriesCode ==
    (pc = "done" /\ res.body.kind = "default") =>
        LET b == res.body.response IN
        /\ b.status = swiftError.statusCode
        /\ b.error \in {swiftError.message, GenericPhrase}
        /\ swiftError.code # "undefined" => b.code = swiftError.code
        /\ b.timestamp = "now"
        /\ res.statusCode = swiftError.statusCode

\* The error pipeline has normalised the value it caught.
Normalised == pc \in {"handlers", "respond", "done"} /\ thrown # Undefined

\* C12: normalisation returns an already-typed error unchanged, turns a
\* generic error into an internal error of status 500 with the original
\* message, turns a value that is not an error into an internal error of
\* status 500 with the message 'Unknown error occurred', and is idempotent.
C12_NormaliseCases ==
    Normalised =>
        /\ thrown.kind = "SwiftError" => swiftError = thrown
        /\ thrown.kind = "Error" =>
             /\ swiftError.name = "InternalServerError"
             /\ swiftError.statusCode = 500
             /\ swiftError.message = thrown.message
        /\ thrown.kind \notin {"SwiftError", "Error"} =>
             /\ swiftError.name = "InternalServerError"
             /\ swiftError.statusCode = 500
             /\ swiftError.message = <<"Unknown error occurred">>
        /\ isSwiftError(swiftError)
        /\ normaliseError(swiftError) = swiftError

\* A typed 404 error with structured details went through the pipeline
\* unchanged and was answered.
C12_Witness ==
    /\ pc = "done"
    /\ thrown.kind = "SwiftError"
    /\ thrown.statusCode = 404
    /\ Truthy(thrown.details)
    /\ swiftError = thrown
    /\ res.statusCode = 404

\* ------------------------------------------------------------------------
\* Error reporting
\* ------------------------------------------------------------------------
Logged(entry) == \E j \in 1..Len(log) : log[j] = entry

\* C13: a reporter that fails (throws synchronously or returns a rejected
\* promise) never crashes request handling and never masks the original
\* error: the error handlers still run and the response carries the
\* original error's status; in a CompositeErrorReporter every other
\* reporter is still invoked and report() itself does not fail.
C13_ReporterFailureIsolated ==
    (pc = "done" /\ thrown # Undefined) =>
        /\ \A i \in 1..Len(errorHandlers) : Logged(<<"errorHandler", i>>)
        /\ res.headersSent
        /\ res.body.kind = "default" =>
               res.statusCode = normaliseError(thrown).statusCode
        /\ errorReporter.kind = "composite" =>
               /\ \A i \in 1..Len(errorReporter.reporters) : Logged(<<"reporter", i>>)
               /\ ~Logged(<<"console.error", 0>>)

\* ------------------------------------------------------------------------
\* Parameter validation
\* ------------------------------------------------------------------------
\* The validators of the matched route whose parameter the match bound
PresentValidators ==
    {k \in 1..Len(routes[matched].params) :
        HasParam(reqParams, routes[matched].params[k][1])}

FailedValidators ==
    {k \in PresentValidators : routes[matched].params[k][2] # "valid"}

\* The error lists the parameter of validator k.
Listed(errors, k) ==
    \E j \in 1..Len(errors) : errors[j][2] = routes[matched].params[k][1]

\* C14: every validator of the matched route whose parameter is present in
\* the match is run, also after an earlier one failed; if one or more
\* return false or throw, the request fails with a single validation error
\* of status 400 that lists every failed parameter, and no middleware and
\* no handler is invoked.
C14_ValidatorsAggregated ==
    (pc = "done" /\ matched # 0) =>
        /\ \A k \in PresentValidators : Logged(<<"validator", k>>)
        /\ FailedValidators # {} =>
             /\ thrown.name = "ValidationError"
             /\ thrown.statusCode = 400
             /\ Len(thrown.details.errors) = Cardinality(FailedValidators)
             /\ \A k \in FailedValidators : Listed(thrown.details.errors, k)
             /\ DispatchLog = <<>>
             /\ res.statusCode = 400
             /\ res.body.kind = "default"

\* Two validators ran on a request of a route with global middleware: the
\* first returned false, the second threw, and the 400 lists both.
C14_Witness ==
    /\ pc = "done"
    /\ matched # 0
    /\ middleware # <<>>
    /\ Len(routes[matched].params) = 2
    /\ routes[matched].params[1][2] = "invalid"
    /\ routes[matched].params[2][2] = "throw"
    /\ Cardinality(FailedValidators) = 2
    /\ Len(thrown.details.errors) = 2
    /\ res.statusCode = 400

\* ------------------------------------------------------------------------
\* Body reader
\* ------------------------------------------------------------------------
\* enhanceRequest has called parseRequestBody.
ReaderCalled ==
    /\ reader.stage # "idle"
    /\ reader.method \in methodsWithBody
    /\ ~(reader.multipart /\ IsMultipart(reader.contentType)
         /\ ~HasBoundary(reader.contentType))

\* C15: when the declared Content-Length is greater than the byte ceiling,
\* the body reader fails before attaching to the stream: no chunk is
\* consumed and no timer is started.
C15_OversizedDeclaredNotRead ==
    (ReaderCalled /\ reader.declared > LimitBytes) =>
        /\ ~reader.attached
        /\ reader.timer = "none"
        /\ reader.consumed = 0
        /\ reader.chunks = <<>>
        /\ reader.promise = "rejected"
        /\ reader.value = EntityTooLarge
        /\ reader.outcome = "threw"

\* A POST that declares one byte more than the ceiling was refused and
\* answered by the error pipeline.
C15_Witness ==
    /\ pc = "done"
    /\ reader.method = "POST"
    /\ reader.declared = LimitBytes + 1
    /\ reader.settledBy = "length"
    /\ ~reader.attached
    /\ res.headersSent

\* C16: for every sequence of chunks, the body reader fails at the first
\* chunk that makes the running byte total exceed the ceiling, the buffered
\* bytes never exceed the ceiling plus one chunk (also for chunks that
\* arrive after the failure), and a later end-of-stream never turns the
\* failed read into a parsed body.
C16_BufferBounded ==
    [][/\ SumSeq(reader'.chunks) <= LimitBytes + LargestChunk
       /\ reader'.consumed = reader.consumed + 1 =>
            /\ (reader.totalSize <= LimitBytes /\ reader'.totalSize > LimitBytes
                /\ reader.promise = "pending")
               => (reader'.promise = "rejected" /\ reader'.value = EntityTooLarge)
            /\ reader'.totalSize <= LimitBytes => reader'.promise = reader.promise
            /\ reader'.totalSize > LimitBytes => reader'.chunks = reader.chunks
       /\ reader.promise = "rejected" =>
            /\ reader'.promise = "rejected"
            /\ reader'.value = reader.value
            /\ reader'.outcome = "threw"
            /\ reader'.body = reader.body]_vars

\* The second chunk crossed the ceiling, a third chunk arrived after the
\* failure, the stream ended, and the read is still the failed one with one
\* chunk buffered.
C16_Witness ==
    /\ reader.ended
    /\ reader.consumed = 3
    /\ reader.settledBy = "data"
    /\ reader.promise = "rejected"
    /\ reader.value = EntityTooLarge
    /\ Len(reader.chunks) = 1
    /\ reader.totalSize > LimitBytes

\* The status of the taxonomy for a failure of the body reader
TaxonomyStatus(settledBy) ==
    IF settledBy \in {"length", "data"} THEN 413
    ELSE IF settledBy = "timeout" THEN 408
    ELSE 400

\* C17: body reader failures reach the client with their taxonomy status:
\* a body over the ceiling (declared or streamed) gives 413, a body-read
\* timeout gives 408 and a JSON decode failure gives 400; none of them is
\* reported as an internal error 500.
C17_BodyFailureStatus ==
    (pc = "done" /\ reader.outcome = "threw"
     /\ reader.settledBy \in {"length", "data", "timeout", "end"})
    => /\ res.statusCode = TaxonomyStatus(reader.settledBy)
       /\ res.statusCode # 500

\* C18: on clean end-of-stream the body reader returns 'no body' (null) if
\* and only if zero bytes were received in total, for every chunk sequence
\* including those with empty chunks; a stream with at least one byte gives
\* a non-null result or a parsing failure.
C18_NullIffZeroBytes ==
    reader.settledBy = "end" =>
        /\ reader.totalSize = 0 => (reader.promise = "resolved" /\ reader.value = Null)
        /\ reader.totalSize > 0 => ~(reader.promise = "resolved" /\ reader.value = Null)

\* C19: when multipart parsing is enabled and the content type is
\* multipart/form-data without a boundary attribute, multipart parsing is
\* skipped and the request body is the raw body that was sent (the stream
\* is still read under the size ceiling), not an absent body.
C19_NoBoundaryReadsRawBody ==
    (/\ reader.stage = "done"
     /\ reader.method \in methodsWithBody
     /\ reader.multipart
     /\ IsMultipart(reader.contentType)
     /\ ~HasBoundary(reader.contentType)
     /\ reader.declared <= LimitBytes)
    => /\ reader.attached
       /\ reader.outcome = "returned" =>
            (reader.body.kind = "buffer" \/ reader.totalSize = 0)

\* ------------------------------------------------------------------------
\* Plain patterns
\* ------------------------------------------------------------------------
\* Not a wildcard pattern and not an optional-parameter pattern
PlainPattern(pattern) == ~includes(pattern, "*") /\ ~includes(pattern, "?")

\* The '/'-delimited segments of a pattern or a path
Segments(s) == filterBoolean(split(s))

IsParamSegment(seg) == startsWith(seg, <<":">>)

\* Same number of segments, and every literal segment of the pattern equals
\* the path segment at its position.
SegmentsAgree(pattern, path) ==
    LET ps == Segments(pattern)
        qs == Segments(path)
    IN /\ Len(ps) = Len(qs)
       /\ \A i \in 1..Len(ps) : ~IsParamSegment(ps[i]) => ps[i] = qs[i]

\* Every ':name' segment of the pattern bound to the (percent-decoded) path
\* segment at its position
BoundParams(pattern, path) ==
    LET ps == Segments(pattern)
        qs == Segments(path)
    IN {<<sliceFrom(ps[i], 1), decodeURIComponent(qs[i]).val>> :
           i \in {j \in 1..Len(ps) : IsParamSegment(ps[j])}}

\* The lookup of the request tried the first route, a plain pattern.
FirstRoutePlain ==
    /\ reqId = "id"
    /\ Len(routes) >= 1
    /\ routes[1].method = req.method
    /\ PlainPattern(routes[1].path)

\* C20: for a plain pattern (no '*', no '?'), match succeeds if and only if
\* pattern and path have the same number of segments and every literal
\* pattern segment equals the corresponding path segment; on success the
\* parameters are exactly the ':name' segments bound to the corresponding
\* path segments (none when the pattern has no ':name' segment).
C20_PlainPatternMatch ==
    FirstRoutePlain =>
        /\ matched = 1 <=> SegmentsAgree(routes[1].path, req.path)
        /\ matched = 1 => reqParams = BoundParams(routes[1].path, req.path)

\* ------------------------------------------------------------------------
\* SpecMatch: the matcher as a function.  One route pattern of every string
\* kind and one request path; Match applies enhancedMatchRoute to them and
\* keeps what it returned (matched = 1 for matches: true) or threw.
\* ------------------------------------------------------------------------
MatchPatterns ==
    {Str_u, Str_param, Str_uparam, Str_two, Str_optional, Str_optx, Str_optxu,
     Str_star, Str_wild}

MatchPaths ==
    {Str_root, Str_u, Str_v, Str_uv, Str_ux, Str_bad, Str_ubad, Str_enc, Str_uenc}

InitMatchOver(patterns, paths) ==
    /\ nodeEnv = "development"
    /\ phase = "serving"
    /\ middleware = <<>>
    /\ \E p \in patterns : routes = <<Route("GET", p, "respond")>>
    /\ errorHandlers = <<>>
    /\ globalErrorHandler = "null"
    /\ errorReporter = ConsoleErrorReporter
    /\ pc = "match"
    /\ \E p \in paths : req = [method |-> "GET", path |-> p, stream |-> EmptyStream]
    /\ reqId = "id"
    /\ reqParams = {}
    /\ matched = 0
    /\ res = FreshResponse
    /\ thrown = Undefined
    /\ swiftError = Undefined
    /\ log = <<>>
    /\ unhandled = <<>>
    /\ reader = IdleReader
    /\ routeCache = {}
    /\ now = 0

InitMatch == InitMatchOver(MatchPatterns, MatchPaths)

Match ==
    /\ pc = "match"
    /\ LET m == enhancedMatchRoute(routes[1].path, req.path) IN
        /\ matched' = IF ~m.threw /\ m.matches THEN 1 ELSE 0
        /\ reqParams' = m.params
        /\ thrown' = IF m.threw THEN URIError ELSE Undefined
    /\ pc' = "matched"
    /\ UNCHANGED <<phase, appVars, nodeEnv, routeCache, now, req, reqId, res, swiftError, log,
                   unhandled, reader>>

NextMatch == Match

SpecMatch == InitMatch /\ [][NextMatch]_vars

\* The matcher returned (it did not throw).
MatchReturned == pc = "matched" /\ thrown = Undefined

\* ------------------------------------------------------------------------
\* Optional-parameter patterns
\* ------------------------------------------------------------------------
IsOptionalSegment(seg) == startsWith(seg, <<":">>) /\ endsWith(seg, <<"?">>)

\* The lock-step walk over the pattern's and the path's segments: whether
\* it consumes every path segment.
RECURSIVE WalkConsumesAll(_, _)
WalkConsumesAll(patternSegs, pathSegs) ==
    IF patternSegs = <<>> THEN pathSegs = <<>>
    ELSE IF IsOptionalSegment(Head(patternSegs))
         THEN WalkConsumesAll(Tail(patternSegs),
                  IF pathSegs = <<>> THEN pathSegs ELSE Tail(pathSegs))
    ELSE /\ pathSegs # <<>>
         /\ (IsParamSegment(Head(patternSegs)) \/ Head(patternSegs) = Head(pathSegs))
         /\ WalkConsumesAll(Tail(patternSegs), Tail(pathSegs))

\* The parameters the walk binds: each ':name' or ':name?' that consumed a
\* path segment, to that segment percent-decoded.
RECURSIVE WalkBindings(_, _)
WalkBindings(patternSegs, pathSegs) ==
    IF patternSegs = <<>> \/ pathSegs = <<>> THEN {}
    ELSE LET seg == Head(patternSegs)
             rest == WalkBindings(Tail(patternSegs), Tail(pathSegs))
         IN
         IF IsOptionalSegment(seg)
         THEN SetParam(rest, SubSeq(seg, 2, Len(seg) - 1),
                       decodeURIComponent(Head(pathSegs)).val)
         ELSE IF IsParamSegment(seg)
         THEN SetParam(rest, sliceFrom(seg, 1), decodeURIComponent(Head(pathSegs)).val)
         ELSE rest

OptionalPattern(pattern) == includes(pattern, "?") /\ ~includes(pattern, "*")

\* C21: for an optional-parameter pattern the segments of pattern and path
\* are walked in lock-step: an optional segment consumes the next path
\* segment if one remains and is skipped otherwise, a required or literal
\* segment needs a corresponding (equal, for literals) path segment, the
\* match succeeds only if every path segment has been consumed, and the
\* parameters are the segments the walk bound; '/u/:x?' matches '/u' with
\* no parameters and '/u/v' with {x: 'v'}.
C21_OptionalLockStep ==
    (MatchReturned /\ OptionalPattern(routes[1].path)) =>
        /\ matched = 1 <=> WalkConsumesAll(Segments(routes[1].path), Segments(req.path))
        /\ matched = 1 =>
              reqParams = WalkBindings(Segments(routes[1].path), Segments(req.path))
        /\ (routes[1].path = Str_optional /\ req.path = Str_u) =>
              (matched = 1 /\ reqParams = {})
        /\ (routes[1].path = Str_optional /\ req.path = Str_uv) =>
              (matched = 1 /\ reqParams = {<<Name_x, <<"v">>>>})

\* '/u/:x?' was matched against '/u': the optional segment was skipped.
C21_Witness ==
    /\ MatchReturned
    /\ routes[1].path = Str_optional
    /\ req.path = Str_u
    /\ matched = 1
    /\ reqParams = {}

\* ------------------------------------------------------------------------
\* Wildcard patterns
\* ------------------------------------------------------------------------
\* The value bound to the parameter; <<>> when it is not bound
ParamValue(params, name) ==
    IF HasParam(params, name) THEN (CHOOSE p \in params : p[1] = name)[2] ELSE <<>>

\* C22: a bare '*' matches every path; a pattern ending in '/*' matches any
\* path sharing the prefix before '/*' and binds the remainder of the path
\* to 'wildcard', so that on every successful match prefix + wildcard
\* equals the path and a non-empty wildcard value starts with '/'.
C22_WildcardRemainder ==
    (MatchReturned /\ includes(routes[1].path, "*")) =>
        /\ routes[1].path = Str_star => matched = 1
        /\ (endsWith(routes[1].path, <<"/", "*">>) /\ matched = 1) =>
              LET prefix == sliceEnd(routes[1].path, 2)
                  wildcard == ParamValue(reqParams, Name_wildcard)
              IN  /\ HasParam(reqParams, Name_wildcard)
                  /\ prefix \o wildcard = req.path
                  /\ (wildcard # <<>> => Head(wildcard) = "/")

\* ------------------------------------------------------------------------
\* Percent-decoding of parameter values
\* ------------------------------------------------------------------------
\* C23: every parameter value exposed by a successful match is the
\* percent-decoded form of the matched path text, for every pattern kind:
\* ':name' and ':name?' parameters are the decoded segments, 'wildcard' is
\* the decoded remainder of the path.
C23_ParamsDecoded ==
    (MatchReturned /\ matched = 1) =>
        IF includes(routes[1].path, "*")
        THEN \A p \in reqParams :
               LET text == sliceFrom(req.path, Len(sliceEnd(routes[1].path, 2)))
                   d == decodeURIComponent(text)
               IN  (p[1] = Name_wildcard /\ d.ok) => p[2] = d.val
        ELSE reqParams = WalkBindings(Segments(routes[1].path), Segments(req.path))

\* ------------------------------------------------------------------------
\* SpecRegex: routes whose pattern is a regular expression, next to a string
\* pattern, and requests served one after another.
\* ------------------------------------------------------------------------
RegExpFlags == {"", "g", "y"}

RegexPatterns ==
    {RegExpObject(source, flags, 0) :
         source \in {Re_uRest, Re_slashChar}, flags \in RegExpFlags}
    \cup {Str_uparam}

RegexPaths == {Str_u, Str_v, Str_uv, Str_uenc}

NextRegex ==
    \/ \E p \in RegexPatterns : addRoute("GET", p, "respond", MaxRoutes)
    \/ listen
    \/ \E p \in RegexPaths : Request("GET", p, EmptyStream)
    \/ Serve

SpecRegex == Init /\ [][NextRegex]_vars

\* Two calls of the matcher, one after the other, with the same pattern and
\* the same path return the same result.
TwoCallsAgree(pattern, path) ==
    LET m1 == enhancedMatchRoute(pattern, path)
        m2 == enhancedMatchRoute(IF IsRegExp(pattern) THEN m1.pattern ELSE pattern,
                                 path)
    IN  /\ m1.threw = m2.threw
        /\ m1.matches = m2.matches
        /\ m1.params = m2.params

\* C24: matching is pure: two calls with the same pattern and the same path
\* return the same result whatever calls were made before, for every
\* pattern kind including regular expressions with any flags; so the
\* parameters handleRequest assigns to a request are those of the match
\* that selected its route in lookup.
C24_MatchingPure ==
    [][/\ \A k \in 1..Len(routes), p \in RegexPaths :
              TwoCallsAgree(routes[k].path, p)
       /\ (pc = "try" /\ matched' # 0) =>
              reqParams' = enhancedMatchRoute(routes[matched'].path, req.path).params
      ]_vars

\* ------------------------------------------------------------------------
\* SpecLimit: the limit option.  One read of a POST body under every limit
\* string of up to MaxLimitLen characters and the strings of LimitExamples.
\* ------------------------------------------------------------------------
MaxLimitLen == 3

LimitAlphabet == {"1", "5", ".", "k", "K", "b", "x"}

LimitExamples ==
    {<<"1", "0", "k", "b">>, <<"1", ".", "5", "m", "b">>, <<"1", ".", "5", "k", "b">>,
     <<"b", "o", "g", "u", "s">>, <<"1", "G", "B">>, <<"1", "M", "b">>, <<>>}

LimitStrings ==
    UNION {[1..n -> LimitAlphabet] : n \in 1..MaxLimitLen} \cup LimitExamples

LimitChunkSizes == {4, 1024}

NextLimit ==
    \/ \E limit \in LimitStrings, declared \in {0, 2048} :
           EnhanceRequestOptions("POST", "text/plain",
               [DefaultOptions EXCEPT !.limit = limit], declared, "object")
    \/ \E size \in LimitChunkSizes : Data(size)
    \/ End

SpecLimit == Init /\ [][NextLimit]_vars

UnitNames == {<<>>, <<"b">>, <<"k", "b">>, <<"m", "b">>, <<"g", "b">>}

\* The exponent k of the unit: 0 for b or no unit, 1 for kb, 2 for mb, 3 for gb
UnitExponent(unit) ==
    IF unit = <<"k", "b">> THEN 1 ELSE IF unit = <<"m", "b">> THEN 2
    ELSE IF unit = <<"g", "b">> THEN 3 ELSE 0

\* The ways to read the string by the grammar number + optional unit:
\* <<whole, fraction, unit>> with whole digits, an optional '.' and fraction
\* digits, and a unit name or none.
LimitReadings(str) ==
    LET splits == {t \in (1..Len(str)) \X (0..Len(str)) \X UnitNames :
                      t[1] + (IF t[2] = 0 THEN 0 ELSE 1 + t[2]) + Len(t[3]) = Len(str)}
        parts == {<<SubSeq(str, 1, t[1]),
                    IF t[2] = 0 THEN <<>> ELSE SubSeq(str, t[1] + 2, t[1] + 1 + t[2]),
                    t[3]>> : t \in splits}
    IN  {p \in parts :
            /\ IsDigits(p[1])
            /\ p[2] # <<>> => IsDigits(p[2])
            /\ str = p[1] \o (IF p[2] = <<>> THEN <<>> ELSE <<".">> \o p[2]) \o p[3]}

\* floor(value * 1024^k) of a reading
FlooredBytes(p) ==
    (DigitsValue(p[1] \o p[2]) * Pow(1024, UnitExponent(p[3])))
        \div Pow(10, Len(p[2]))

\* parseRequestBody was called with the reader's options.
ReadWithLimit == reader.stage # "idle" /\ reader.method \in methodsWithBody

\* C25: parseLimit returns floor(value * 1024^k) for a string of the grammar
\* number + optional unit (b, kb, mb, gb), case-insensitively ('10kb' is
\* 10240, '1.5mb' is 1572864); every other string fails with an error, and
\* in the body reader that failure comes before any byte is read.
C25_ParseLimit ==
    ReadWithLimit =>
        LET readings == LimitReadings(toLowerCase(reader.limit)) IN
        /\ \A p \in readings :
              /\ reader.settledBy # "limit"
              /\ reader.limitBytes = FlooredBytes(p)
        /\ readings = {} =>
              /\ reader.settledBy = "limit"
              /\ reader.outcome = "threw"
              /\ reader.value = InvalidLimitFormat
              /\ ~reader.attached
              /\ reader.timer = "none"
              /\ reader.consumed = 0
        /\ reader.limit = <<"1", "0", "k", "b">> => reader.limitBytes = 10240
        /\ reader.limit = <<"1", ".", "5", "m", "b">> => reader.limitBytes = 1572864
        /\ reader.limit = <<"b", "o", "g", "u", "s">> => reader.settledBy = "limit"

\* A body was read under the limit '1.5kb': 1536 bytes, so two chunks of
\* 1024 bytes overflowed it.
C25_Witness ==
    /\ reader.limit = <<"1", ".", "5", "k", "b">>
    /\ reader.limitBytes = 1536
    /\ reader.consumed = 2
    /\ reader.settledBy = "data"

\* ------------------------------------------------------------------------
\* SpecGroup: routes with string and regex patterns registered one by one,
\* then a group whose callback registers routes with and without their own
\* middleware, calls use, and opens a nested group.
\* ------------------------------------------------------------------------
Re_plain == RegExpObject(Re_uRest, "", 0)

NestedCallbacks ==
    {<<Command("addRoute", Str_u, <<>>, <<>>)>>,
     <<Command("addRouteWithMiddleware", Str_u, <<"respond">>, <<>>)>>}

Commands ==
    {Command("addRoute", Str_u, <<>>, <<>>),
     Command("addRoute", Re_plain, <<>>, <<>>),
     Command("addRouteWithMiddleware", Str_v, <<"silent">>, <<>>),
     Command("use", <<>>, <<"throw">>, <<>>)}
    \cup {Command("group", Str_uv, <<"twice">>, cb) : cb \in NestedCallbacks}

Callbacks == ListsUpTo(Commands, MaxCallback)

GroupPrefixes == {Str_v, <<>>}

GroupMiddleware == {<<>>, <<"next">>}

NextGroup ==
    \/ use("nextNoAwait")
    \/ \E p \in {Str_u, Re_plain} : addRoute("GET", p, "respond", MaxRoutes)
    \/ \E prefix \in GroupPrefixes, mws \in GroupMiddleware, cb \in Callbacks :
           Group(prefix, mws, cb)

SpecGroup == Init /\ [][NextGroup]_vars

\* The routes a callback registers, in registration order, as they are when
\* the callback returns: those of a nested group carry its prefix and its
\* middleware.
RECURSIVE Registered(_)
Registered(callback) ==
    IF callback = <<>> THEN <<>>
    ELSE LET c == Head(callback) IN
         (IF c.op = "addRoute" THEN <<[path |-> c.path, own |-> <<>>]>>
          ELSE IF c.op = "addRouteWithMiddleware"
          THEN <<[path |-> c.path, own |-> c.middleware]>>
          ELSE IF c.op = "group"
          THEN LET inner == Registered(c.callback) IN
               [j \in 1..Len(inner) |->
                   [path |-> IF IsRegExp(inner[j].path) THEN inner[j].path
                             ELSE c.path \o inner[j].path,
                    own |-> c.middleware \o inner[j].own]]
          ELSE <<>>)
         \o Registered(Tail(callback))

\* What the claim says of one group call, between the state before it and
\* the state after it
GroupChangesExactly(prefix, mws, callback) ==
    LET new == Registered(callback)
        before == Len(routes)
    IN  /\ Len(routes') = before + Len(new)
        /\ \A k \in 1..before : routes'[k] = routes[k]
        /\ \A j \in 1..Len(new) :
              /\ routes'[before + j].path =
                    IF IsRegExp(new[j].path) THEN new[j].path
                    ELSE prefix \o new[j].path
              /\ routes'[before + j].hasMiddleware
              /\ routes'[before + j].middleware = mws \o new[j].own
        /\ middleware' = middleware

\* C26: group(prefix, middleware, callback) changes exactly the routes
\* registered during the callback: a string pattern becomes prefix +
\* pattern, a regex pattern is left as it is, the middleware list becomes
\* the group's middleware followed by the route's own; the routes
\* registered before keep their pattern and middleware, and the route
\* table is in registration order.
C26_GroupPrefixesNewRoutes ==
    [][\A prefix \in GroupPrefixes, mws \in GroupMiddleware, cb \in Callbacks :
          Group(prefix, mws, cb) => GroupChangesExactly(prefix, mws, cb)]_vars

\* A group with a prefix and a middleware ran, after a route had been
\* registered, a callback that opened a nested group: the nested route has
\* both prefixes and both middleware lists in front of its own.
C26_Witness ==
    /\ Len(routes) = 2
    /\ ~routes[1].hasMiddleware
    /\ routes[1].path = Str_u
    /\ routes[2].path = Str_v \o Str_uv \o Str_u
    /\ routes[2].middleware = <<"next", "twice", "respond">>

\* ------------------------------------------------------------------------
\* The cursor of a dispatch
\* ------------------------------------------------------------------------
\* The dispatch of the global middleware was started for the request.
DispatchStarted ==
    /\ reqId = "id"
    /\ pc \in {"report", "handlers", "respond", "done"}
    /\ matched # 0

MaxNow == 4

Ttls == {1, 2}

Queries == {"{}", "{\"page\":\"2\"}"}

\* JSON values a handler passes to res.json: objects, and the number 0
JsonObject(id) == [kind |-> "object", value |-> id]

JsonZero == [kind |-> "falsy", value |-> 0]

\* What the wrapped handler does with the response: res.json(data), or
\* nothing.
NoJson == [kind |-> "none"]

HandlerSends == {JsonZero, JsonObject(1), JsonObject(2), NoJson}

\* `${req.method}:${req.path}:${JSON.stringify(req.query)}`
CacheKey(method, path, query) == <<method, path, query>>

\* This.cache.get(key): the entry or undefined
CacheEntry(cache, key) ==
    IF \E e \in cache : e.key = key
    THEN CHOOSE e \in cache : e.key = key
    ELSE Undefined

\* RouteCache.set(key, data, ttl) at time t.  storedAt and ttl are kept
\* beside the entry's data and expires to state when it was stored.
RouteCacheSet(cache, key, data, ttl, t) ==
    {e \in cache : e.key # key}
        \cup {[key |-> key, data |-> data, expires |-> t + ttl,
               storedAt |-> t, ttl |-> ttl]}

\* RouteCache.get(key) at time t: the value returned and the cache after it
RouteCacheGet(cache, key, t) ==
    LET entry == CacheEntry(cache, key)
    IN  IF entry = Undefined THEN [value |-> Null, cache |-> cache]
        ELSE IF t > entry.expires
             THEN [value |-> Null, cache |-> {e \in cache : e.key # key}]
             ELSE [value |-> entry.data, cache |-> cache]

CacheResponse(xCache, body) ==
    [headersSent |-> body # NoBody, statusCode |-> 200, body |-> body,
     xCache |-> xCache]

\* The handler cached() registers, called at time t with a request of the
\* given key; sends is what the wrapped handler does when it is invoked.
cachedHandler(cache, key, ttl, sends, t) ==
    LET got == RouteCacheGet(cache, key, t)
    IN  IF Truthy(got.value)
        THEN [cache |-> got.cache, res |-> CacheResponse("HIT", got.value),
              log |-> <<>>]
        ELSE IF sends = NoJson
             THEN [cache |-> got.cache, res |-> CacheResponse("none", NoBody),
                   log |-> <<"handler">>]
             ELSE [cache |-> RouteCacheSet(got.cache, key, sends, ttl, t),
                   res |-> CacheResponse("MISS", sends),
                   log |-> <<"handler">>]

\* cached(path, handler, ttl): this.get(path, cachedHandler)
cached(path, ttl) ==
    /\ routes = <<>>
    /\ routes' = <<Route("GET", path, [kind |-> "cached", ttl |-> ttl])>>
    /\ UNCHANGED <<phase, middleware, errorHandlers, globalErrorHandler,
                   errorReporter, nodeEnv, routeCache, now, pc, requestVars>>

\* The cached handler of the route is called with a GET request for the
\* route's path.
CachedRequest(query, sends) ==
    /\ Len(routes) = 1
    /\ pc = "idle"
    /\ LET key == CacheKey("GET", routes[1].path, query)
           r == cachedHandler(routeCache, key, routes[1].handler.ttl, sends, now)
       IN  /\ routeCache' = r.cache
           /\ res' = r.res
           /\ log' = r.log
           /\ req' = [method |-> "GET", path |-> routes[1].path, query |-> query]
    /\ pc' = "done"
    /\ UNCHANGED <<phase, appVars, nodeEnv, now, reqId, reqParams, matched,
                   thrown, swiftError, unhandled, reader>>

\* The request is over.
CachedDone ==
    /\ pc = "done"
    /\ pc' = "idle"
    /\ UNCHANGED <<phase, appVars, nodeEnv, routeCache, now, requestVars>>

\* Time passes.
Tick ==
    /\ now < MaxNow
    /\ now' = now + 1
    /\ UNCHANGED <<phase, appVars, nodeEnv, routeCache, pc, requestVars>>

NextCache ==
    \/ \E ttl \in Ttls : cached(Str_u, ttl)
    \/ \E q \in Queries, sends \in HandlerSends : CachedRequest(q, sends)
    \/ CachedDone
    \/ Tick

SpecCache == Init /\ [][NextCache]_vars

\* The entry of the key that has not expired, if there is one
FreshEntries(key) == {e \in routeCache : e.key = key /\ now <= e.storedAt + e.ttl}

\* What the claim says of one request to a cached route
CachedRouteServes(query, sends) ==
    LET key == CacheKey("GET", routes[1].path, query)
        fresh == FreshEntries(key)
    IN  /\ \A e \in routeCache' : e.expires = e.storedAt + e.ttl
        /\ res'.xCache = "HIT" => \E e \in fresh : res'.body = e.data
        /\ \A e \in routeCache : (e.key = key /\ now > e.expires) => e \notin routeCache'
        /\ fresh # {} => /\ log' = <<>>
                         /\ \E e \in fresh : res'.body = e.data
                         /\ routeCache' = routeCache
        /\ fresh = {} => /\ log' = <<"handler">>
                         /\ sends # NoJson =>
                               /\ res'.body = sends
                               /\ \E e \in routeCache' :
                                     /\ e.key = key
                                     /\ e.data = sends
                                     /\ e.storedAt = now
                                     /\ e.ttl = routes[1].handler.ttl

\* C28: the route cache never serves an expired entry: an entry stored with
\* TTL t is returned only while the current time is at most store time + t,
\* and an expired entry is removed when accessed; a cached route serves the
\* stored response on a hit without invoking the wrapped handler, and on a
\* miss invokes the handler and stores what it sends via json.
C28_CacheHitSkipsHandler ==
    [][\A q \in Queries, sends \in HandlerSends :
          CachedRequest(q, sends) => CachedRouteServes(q, sends)]_vars

\* The same, for stored values that are truthy in JavaScript
C28_HoldsForTruthyData ==
    [][\A q \in Queries, sends \in HandlerSends :
          (/\ CachedRequest(q, sends)
           /\ \A e \in routeCache : Truthy(e.data))
              => CachedRouteServes(q, sends)]_vars

\* ------------------------------------------------------------------------
\* SpecTimer: the body reader under the clock.  One enhanceRequest call;
\* while its listeners are attached the stream emits chunks, ends or fails
\* and time passes; the timer set at line 103 fires once RequestTimeoutMs
\* have passed since the call.  The event loop runs a timer that is due,
\* and time does not stop: both are weakly fair.
\* ------------------------------------------------------------------------
RequestTimeoutMs == 30000

TickSizes == {10000, 20000}

TimerContentTypes == {"application/json", "text/plain"}

\* enhanceRequest is called at time 0.
EnhanceRequestAtZero(method, contentType, declared, payload) ==
    /\ now = 0
    /\ EnhanceRequest(method, contentType, FALSE, declared, payload)

\* Time passes while the listeners of the read are attached.
BodyTick(ms) ==
    /\ reader.attached
    /\ now < RequestTimeoutMs
    /\ now' = now + ms
    /\ UNCHANGED <<phase, appVars, nodeEnv, routeCache, pc, requestVars>>

\* The timer callback runs: the timer is set and its delay has passed.
TimeoutElapsed ==
    /\ now >= RequestTimeoutMs
    /\ Timeout

NextTimer ==
    \/ \E m \in Methods, ct \in TimerContentTypes, d \in DeclaredLengths,
          pl \in Payloads : EnhanceRequestAtZero(m, ct, d, pl)
    \/ \E size \in ChunkSizes : Data(size)
    \/ End
    \/ StreamError
    \/ \E ms \in TickSizes : BodyTick(ms)
    \/ TimeoutElapsed

SpecTimer ==
    /\ Init
    /\ [][NextTimer]_vars
    /\ WF_vars(\E ms \in TickSizes : BodyTick(ms))
    /\ WF_vars(TimeoutElapsed)

\* The read is going on: the promise of parseRequestBody is pending.
ReadPending == reader.promise = "pending"

\* The read failed with the timeout error.
TimedOut ==
    /\ reader.promise = "rejected"
    /\ reader.settledBy = "timeout"
    /\ reader.value = RequestTimeout
    /\ reader.outcome = "threw"

\* A read that ended or errored is settled and has no timer left; a
\* pending read has its timer; a read failed by the timer has the timeout
\* error, and its time was up.
TimerFailsOnlyOpenReads ==
    /\ reader.settledBy = "timeout" => TimedOut /\ now >= RequestTimeoutMs
    /\ reader.ended => /\ reader.promise \in {"resolved", "rejected"}
                       /\ reader.timer # "armed"
    /\ ReadPending => reader.timer = "armed" /\ ~reader.ended

\* The timer fails a read only if it has neither ended nor errored nor
\* been settled otherwise.
TimerFailsStep ==
    (reader'.settledBy = "timeout" /\ reader.settledBy # "timeout") =>
        /\ ReadPending
        /\ ~reader.ended
        /\ ~reader'.ended

\* A settled read stays as it was settled.
SettlesOnce ==
    reader.promise \in {"resolved", "rejected"} =>
        /\ reader'.promise = reader.promise
        /\ reader'.settledBy = reader.settledBy
        /\ reader'.value = reader.value
        /\ reader'.outcome = reader.outcome
        /\ reader'.body = reader.body

\* C29: a body read that neither ends nor errors fails with the timeout
\* error once 30 seconds have passed, however many bytes have arrived; a
\* read that has ended or errored is never failed by the timer afterwards;
\* every read settles exactly once.
C29_TimeoutSettlesOnce ==
    /\ []TimerFailsOnlyOpenReads
    /\ [][SettlesOnce /\ TimerFailsStep]_vars
    /\ ReadPending ~> (reader.promise \in {"resolved", "rejected"})
    /\ (ReadPending /\ now >= RequestTimeoutMs) ~> (reader.ended \/ ~ReadPending)
    /\ [][(ReadPending /\ TimeoutElapsed) => TimedOut']_vars

\* The read timed out after chunks had arrived.
C29_Witness ==
    /\ TimedOut
    /\ reader.consumed > 0
    /\ reader.totalSize > 0
    /\ ~reader.ended
    /\ now >= RequestTimeoutMs

\* ------------------------------------------------------------------------
\* SpecDecode: the decoding of a body.  One read of a POST body under every
\* combination of the json, urlencoded, text and raw options and every
\* content type, those of MixedContentTypes included; the stream emits
\* chunks and ends.
\* ------------------------------------------------------------------------
DecodeOptions ==
    {[DefaultOptions EXCEPT !.json = j, !.urlencoded = u, !.text = t, !.raw = w] :
         j \in BOOLEAN, u \in BOOLEAN, t \in BOOLEAN, w \in BOOLEAN}

NextDecode ==
    \/ \E ct \in ContentTypes \cup MixedContentTypes, options \in DecodeOptions,
          pl \in Payloads :
           EnhanceRequestOptions("POST", ct, options, 0, pl)
    \/ \E size \in ChunkSizes : Data(size)
    \/ End

SpecDecode == Init /\ [][NextDecode]_vars

\* The rule the stated priority order picks for a read
StatedRule(r) ==
    IF r.raw THEN "raw"
    ELSE IF r.json /\ IsJson(r.contentType) THEN "json"
    ELSE IF r.urlencoded /\ IsUrlencoded(r.contentType) THEN "urlencoded"
    ELSE IF IsMultipart(r.contentType) THEN "multipart"
    ELSE IF r.text /\ IsText(r.contentType) THEN "text"
    ELSE "string"

\* What a rule makes of the bytes of a read
RuleResult(rule, r) ==
    LET bytes == SumSeq(r.chunks) IN
    CASE rule \in {"raw", "multipart"} ->
             [how |-> "resolved", value |-> BufferOf(bytes)]
      [] rule = "json" ->
             IF r.payload = "malformed"
             THEN [how |-> "rejected", value |-> BodyParsingError]
             ELSE IF r.payload = "null" THEN [how |-> "resolved", value |-> Null]
             ELSE [how |-> "resolved", value |-> [kind |-> "json", bytes |-> bytes]]
      [] rule = "urlencoded" ->
             [how |-> "resolved", value |-> [kind |-> "form", bytes |-> bytes]]
      [] rule \in {"text", "string"} ->
             [how |-> "resolved", value |-> StringOf(bytes)]

\* The read was settled by the 'end' of a stream that delivered bytes.
DecodedAtEnd ==
    /\ reader.settledBy = "end"
    /\ SumSeq(reader.chunks) > 0

\* C30: with raw off a non-empty body is decoded by the first applicable
\* rule in the order JSON (enabled, content type contains application/json),
\* URL-encoded form (enabled, content type contains the marker), multipart
\* (content type contains multipart/form-data: the raw buffer), plain text
\* (content type starts with text/), else the payload as a string; with raw
\* on the concatenated buffer is returned whatever the content type.
C30_DecodePriority ==
    DecodedAtEnd =>
        LET stated == RuleResult(StatedRule(reader), reader)
        IN  /\ reader.promise = stated.how
            /\ reader.value = stated.value

\* The same, for content types that do not both start with text/ and
\* contain multipart/form-data while text is enabled
C30_HoldsUnlessTextAndMultipart ==
    (/\ DecodedAtEnd
     /\ ~(reader.text /\ IsText(reader.contentType) /\ IsMultipart(reader.contentType)))
        => LET stated == RuleResult(StatedRule(reader), reader)
           IN  /\ reader.promise = stated.how
               /\ reader.value = stated.value

\* ------------------------------------------------------------------------
\* SpecThrow: groups whose callback may throw.  Middleware registered with
\* use, routes registered one by one, then a group whose callback registers
\* routes, opens a nested group, or throws at some statement.
\* ------------------------------------------------------------------------
Throw == Command("throw", <<>>, <<>>, <<>>)

ThrowCommands ==
    {Command("addRoute", Str_u, <<>>, <<>>),
     Command("use", <<>>, <<"throw">>, <<>>),
     Throw,
     Command("group", Str_uv, <<"twice">>, <<Throw>>),
     Command("group", Str_uv, <<"twice">>, <<Command("addRoute", Str_u, <<>>, <<>>)>>)}

ThrowCallbacks == ListsUpTo(ThrowCommands, MaxCallback)

NextThrow ==
    \/ use("nextNoAwait")
    \/ addRoute("GET", Str_u, "respond", MaxRoutes)
    \/ \E prefix \in GroupPrefixes, mws \in GroupMiddleware, cb \in ThrowCallbacks :
           Group(prefix, mws, cb)

SpecThrow == Init /\ [][NextThrow]_vars

\* C33: group() never changes the global middleware list: after the call,
\* whether the callback returned or threw, the list is the one before the
\* call, so the group's middleware never runs for routes outside the group.
C33_GroupKeepsGlobalMiddleware ==
    [][\A prefix \in GroupPrefixes, mws \in GroupMiddleware, cb \in ThrowCallbacks :
          Group(prefix, mws, cb) => middleware' = middleware]_vars

\* A statement of the callback, or of the callback of a nested group, throws.
RECURSIVE Throws(_)
Throws(callback) ==
    /\ callback # <<>>
    /\ \/ Head(callback).op = "throw"
       \/ Head(callback).op = "group" /\ Throws(Head(callback).callback)
       \/ Throws(Tail(callback))

\* The same, for callbacks that return
C33_HoldsWhenCallbackReturns ==
    [][\A prefix \in GroupPrefixes, mws \in GroupMiddleware, cb \in ThrowCallbacks :
          (Group(prefix, mws, cb) /\ ~Throws(cb)) => middleware' = middleware]_vars

\* ------------------------------------------------------------------------
\* Totality of matching (SpecMatch)
\* ------------------------------------------------------------------------
\* Every segment of the path can be percent-decoded.
Decodable(path) ==
    \A k \in 1..Len(split(path)) : decodeURIComponent(split(path)[k]).ok

\* C34: matching is total: for every pattern and every path, paths with
\* malformed percent-encoding included, enhancedMatchRoute returns a
\* {matches, params} result and does not throw.
C34_MatchingTotal ==
    pc = "matched" => thrown = Undefined

\* The same, for paths whose segments can all be decoded
C34_HoldsForDecodablePaths ==
    (pc = "matched" /\ Decodable(req.path)) => thrown = Undefined

\* ------------------------------------------------------------------------
\* SpecEquiv: matchRoute and matchOptionalRoute on the same input.  One
\* pattern without an optional segment and one path, with duplicate and
\* trailing slashes among them; MatchBoth calls the two matchers and keeps
\* the two results in log.
\* ------------------------------------------------------------------------
PlainPatterns ==
    {Str_u, Str_param, Str_uparam, Str_two, Str_uslash, Str_slashu, Str_uslashparam}

EquivPaths == MatchPaths \cup {Str_uslash, Str_slashu, Str_uvw}

MatchBoth ==
    /\ pc = "match"
    /\ log' = <<matchRoute(routes[1].path, req.path),
                matchOptionalRoute(routes[1].path, req.path)>>
    /\ pc' = "matched"
    /\ UNCHANGED <<phase, appVars, nodeEnv, routeCache, now, req, reqId, reqParams,
                   matched, res, thrown, swiftError, unhandled, reader>>

NextEquiv == MatchBoth

SpecEquiv == InitMatchOver(PlainPatterns, EquivPaths) /\ [][NextEquiv]_vars

\* The string without its empty segments: one slash before each segment
WithoutEmptySegments(str) ==
    LET segs == filterBoolean(split(str))
        Join[k \in 0..Len(segs)] ==
            IF k = 0 THEN <<>> ELSE Join[k - 1] \o <<"/">> \o segs[k]
    IN  Join[Len(segs)]

\* C35: on a pattern without an optional segment matchOptionalRoute and
\* matchRoute return the same result, the same matches flag and the same
\* parameters, for every path; both ignore empty segments, so duplicate and
\* trailing slashes in pattern or path do not change the result.
C35_OptionalEqualsPlain ==
    pc = "matched" =>
        /\ log[1] = log[2]
        /\ log[1] = matchRoute(WithoutEmptySegments(routes[1].path),
                               WithoutEmptySegments(req.path))
        /\ log[2] = matchOptionalRoute(WithoutEmptySegments(routes[1].path),
                                       WithoutEmptySegments(req.path))

\* What the two matchers do agree on: when matchRoute throws so does
\* matchOptionalRoute; when neither throws the flags are the same, and the
\* parameters are the same when the flag is true; empty segments are
\* ignored by both.
C35_AgreeOnMatches ==
    pc = "matched" =>
        /\ log[1].threw => log[2].threw
        /\ (~log[1].threw /\ ~log[2].threw) =>
              /\ log[1].matches = log[2].matches
              /\ log[1].matches => log[1].params = log[2].params
        /\ log[1] = matchRoute(WithoutEmptySegments(routes[1].path),
                               WithoutEmptySegments(req.path))
        /\ log[2] = matchOptionalRoute(WithoutEmptySegments(routes[1].path),
                                       WithoutEmptySegments(req.path))

\* ------------------------------------------------------------------------
\* SpecAttach: param() and the route table.  Routes and param calls in any
\* order; among the patterns one whose parameter name begins with the name
\* of another parameter.
\* ------------------------------------------------------------------------
AttachPatterns == {Str_two, Str_optional, Str_xy}

NextAttach ==
    \/ \E p \in AttachPatterns : addRoute("GET", p, "respond", MaxRoutes)
    \/ \E n \in {Name_x, Name_y}, v \in ValidatorBehaviours : param(n, v)

SpecAttach == Init /\ [][NextAttach]_vars

\* The name of the parameter a pattern segment declares: ':name' or ':name?'
SegmentName(seg) ==
    IF endsWith(seg, <<"?">>) THEN SubSeq(seg, 2, Len(seg) - 1) ELSE sliceFrom(seg, 1)

\* The pattern has a parameter of exactly this name.
HasParameter(pattern, name) ==
    \E k \in 1..Len(filterBoolean(split(pattern))) :
        /\ startsWith(filterBoolean(split(pattern))[k], <<":">>)
        /\ SegmentName(filterBoolean(split(pattern))[k]) = name

\* The route has a validator for the name.
HasValidator(route, name) ==
    \E k \in 1..Len(route.params) : route.params[k][1] = name

\* C36: a validator registered with param(name, validator) is applied on
\* every route whose pattern has a ':name' parameter, whether the route was
\* registered before or after the param call, and is never attached to a
\* route that has no parameter of exactly that name.  Stated on the route
\* table: a validator sits only on routes with that parameter, and once a
\* name has a validator on some route every route with that parameter has
\* one.
C36_ValidatorOnEveryRoute ==
    \A k \in 1..Len(routes), name \in {Name_x, Name_y} :
        /\ HasValidator(routes[k], name) => HasParameter(routes[k].path, name)
        /\ (/\ HasParameter(routes[k].path, name)
            /\ \E j \in 1..Len(routes) : HasValidator(routes[j], name))
               => HasValidator(routes[k], name)

\* What does hold: a param call attaches the validator to every route
\* registered before it that has the parameter.
C36_HoldsForEarlierRoutes ==
    [][\A name \in {Name_x, Name_y}, v \in ValidatorBehaviours :
          param(name, v) =>
              \A k \in 1..Len(routes) :
                  HasParameter(routes[k].path, name) =>
                      \E e \in 1..Len(routes'[k].params) :
                          routes'[k].params[e] = <<name, v>>]_vars

\* ------------------------------------------------------------------------
\* Error handlers (SpecError)
\* ------------------------------------------------------------------------
IsErrorHandlerEntry(entry) == entry[1] \in {"errorHandler", "globalErrorHandler"}

\* The calls the registered handlers and the global handler are due: each
\* registered handler once, in registration order, then the global one
AllErrorHandlers ==
    [i \in 1..Len(errorHandlers) |-> <<"errorHandler", i>>]
        \o (IF globalErrorHandler # "null" THEN <<<<"globalErrorHandler", 0>>>>
            ELSE <<>>)

\* C39: for every error, after the reporter has been called, each registered
\* error handler is invoked exactly once with the normalized error, in
\* registration order, followed by the global error handler if one is set,
\* even when an earlier handler throws.
C39_EveryErrorHandlerRuns ==
    pc = "respond" => SelectSeq(log, IsErrorHandlerEntry) = AllErrorHandlers

\* The same, when no registered handler throws
C39_HoldsWhenNoHandlerThrows ==
    (/\ pc = "respond"
     /\ \A i \in 1..Len(errorHandlers) : errorHandlers[i] # "throw")
        => SelectSeq(log, IsErrorHandlerEntry) = AllErrorHandlers

\* ------------------------------------------------------------------------
\* parseMultipartData (src/src/utils/request.ts:112-221)
\* A buffer is a sequence of tokens, each standing for a run of bytes:
\*   "--b"                  the delimiter, "--" + boundary
\*   "\r\n\r\n"             the blank line
\*   "name=a", "name=b"     a Content-Disposition line naming a field
\*   "name=a;filename=f", "name=b;filename=g"   one with a filename
\*   "Content-Type: t"      a Content-Type line
\*   "junk", "x"            other header bytes, body bytes
\* Indices are 0-based as in the code.
\* ------------------------------------------------------------------------
Delimiter == "--b"

BlankLine == "\r\n\r\n"

\* buffer.indexOf(token, start): the first index >= start, or -1
indexOf(buffer, token, start) ==
    LET hits == {i \in start..(Len(buffer) - 1) : buffer[i + 1] = token} IN
    IF hits = {} THEN 0 - 1 ELSE CHOOSE i \in hits : \A j \in hits : i <= j

\* buffer.subarray(from, to)
subarray(buffer, from, to) == SubSeq(buffer, from + 1, to)

\* The loop of splitBufferByBoundary, lines 120-128
RECURSIVE splitLoop(_, _, _)
splitFound(buffer, start, parts, boundaryIndex) ==
    IF boundaryIndex = 0 - 1 THEN parts
    ELSE splitLoop(buffer, boundaryIndex + 1,
                   IF start # 0
                   THEN Append(parts, subarray(buffer, start, boundaryIndex))
                   ELSE parts)

splitLoop(buffer, start, parts) ==
    splitFound(buffer, start, parts, indexOf(buffer, Delimiter, start))

\* splitBufferByBoundary that keeps what comes before the first delimiter
splitBufferKeepPreamble(buffer) ==
    LET first == indexOf(buffer, Delimiter, 0) IN
    IF first = 0 - 1 THEN <<>>
    ELSE <<subarray(buffer, 0, first)>> \o splitLoop(buffer, 0, <<>>)

splitBufferByBoundary(buffer) == splitLoop(buffer, 0, <<>>)

DispositionOf(token) ==
    CASE token = "name=a" -> [fieldName |-> "a", filename |-> Undefined]
      [] token = "name=b" -> [fieldName |-> "b", filename |-> Undefined]
      [] token = "name=a;filename=f" ->
             [fieldName |-> "a", filename |-> [kind |-> "string", value |-> "f"]]
      [] token = "name=b;filename=g" ->
             [fieldName |-> "b", filename |-> [kind |-> "string", value |-> "g"]]
      [] OTHER -> Null

\* parseContentDisposition: the first match of the expression in the header
\* string, or null
parseContentDisposition(header) ==
    LET hits == {i \in 1..Len(header) : DispositionOf(header[i]) # Null} IN
    IF hits = {} THEN Null
    ELSE DispositionOf(header[CHOOSE i \in hits : \A j \in hits : i <= j])

\* parseContentType
parseContentType(header) ==
    IF \E i \in 1..Len(header) : header[i] = "Content-Type: t"
    THEN "t" ELSE "application/octet-stream"

\* processPart after the header was cut off at the blank line
processHeader(header, bodyBuffer, disposition, parsed) ==
    IF disposition = Null THEN parsed
    ELSE IF disposition.filename # Undefined
    THEN [parsed EXCEPT !.files =
             Append(@, [name |-> disposition.fieldName,
                        filename |-> disposition.filename.value,
                        mimetype |-> parseContentType(header),
                        data |-> bodyBuffer])]
    ELSE [parsed EXCEPT !.fields = SetParam(@, disposition.fieldName, bodyBuffer)]

\* processPart(part, fields, files); parsed is [fields, files] and
\* headerEnd is part.indexOf("\r\n\r\n")
processPart(part, parsed, headerEnd) ==
    IF headerEnd = 0 - 1 THEN parsed
    ELSE processHeader(subarray(part, 0, headerEnd),
                       subarray(part, headerEnd + 1, Len(part)),
                       parseContentDisposition(subarray(part, 0, headerEnd)),
                       parsed)

RECURSIVE processParts(_, _, _)
processParts(parts, k, parsed) ==
    IF k > Len(parts) THEN parsed
    ELSE processParts(parts, k + 1,
             IF Len(parts[k]) > 0
             THEN processPart(parts[k], parsed, indexOf(parts[k], BlankLine, 0))
             ELSE parsed)

parseMultipartData(buffer) ==
    processParts(splitBufferByBoundary(buffer), 1, [fields |-> {}, files |-> <<>>])

\* ------------------------------------------------------------------------
\* SpecMultipart: one call of parseMultipartData on a buffer made of a
\* preamble, up to MaxParts segments with a delimiter before each and after
\* the last, and an epilogue; or on a buffer without a delimiter.
\* ------------------------------------------------------------------------
FieldSegment == <<"name=a", BlankLine, "x">>

PartSegments ==
    {<<>>,
     FieldSegment,
     <<"junk", "name=b", BlankLine>>,
     <<"name=a;filename=f", "Content-Type: t", BlankLine, "x">>,
     <<"name=b;filename=g", BlankLine, "x", BlankLine, "x">>,
     <<"name=a", "x">>,
     <<"junk", BlankLine, "x">>,
     <<BlankLine, "name=a", "x">>}

\* Segments joined with a delimiter before each one
RECURSIVE Delimited(_)
Delimited(segs) ==
    IF segs = <<>> THEN <<>>
    ELSE <<Delimiter>> \o Head(segs) \o Delimited(Tail(segs))

MultipartBuffers ==
    {pre \o Delimited(segs) \o <<Delimiter>> \o post :
         pre \in {<<>>, FieldSegment}, post \in {<<>>, FieldSegment},
         segs \in ListsUpTo(PartSegments, MaxParts)}
    \cup {<<>>, FieldSegment}

\* parseMultipartData(buffer, boundary) is called.
ParseMultipart(buffer) ==
    /\ pc = "idle"
    /\ reader.stage = "idle"
    /\ req' = [method |-> "POST", path |-> Str_u, stream |-> EmptyStream,
               buffer |-> buffer]
    /\ reader' = [IdleReader EXCEPT !.stage = "done", !.outcome = "returned",
                                    !.body = parseMultipartData(buffer)]
    /\ UNCHANGED <<phase, appVars, nodeEnv, routeCache, now, pc, reqId, reqParams,
                   matched, res, thrown, swiftError, log, unhandled>>

NextMultipart == \E buffer \in MultipartBuffers : ParseMultipart(buffer)

SpecMultipart == Init /\ [][NextMultipart]_vars

\* The call returned.
MultipartParsed == reader.stage = "done" /\ reader.outcome = "returned"

\* The positions of the delimiters in the buffer, in ascending order
DelimiterPositions(buffer) ==
    LET at == {i \in 1..Len(buffer) : buffer[i] = Delimiter}
        Nth[n \in 1..Cardinality(at)] ==
            CHOOSE i \in at : Cardinality({j \in at : j < i}) = n - 1
    IN  Nth

\* The segments between two delimiters, in order
InteriorSegments(buffer) ==
    LET at == DelimiterPositions(buffer) IN
    [n \in 1..(Len(at) - 1) |-> SubSeq(buffer, at[n] + 1, at[n + 1] - 1)]

HasBlankLine(seg) == \E i \in 1..Len(seg) : seg[i] = BlankLine

\* The header of a segment: what comes before its first blank line
HeaderOf(seg) ==
    SubSeq(seg, 1, (CHOOSE i \in 1..Len(seg) :
                       /\ seg[i] = BlankLine
                       /\ \A j \in 1..(i - 1) : seg[j] # BlankLine) - 1)

BodyOf(seg) == SubSeq(seg, Len(HeaderOf(seg)) + 2, Len(seg))

\* What a segment is: "skipped", "file" or "field"
SegmentKind(seg) ==
    IF ~HasBlankLine(seg) THEN "skipped"
    ELSE IF parseContentDisposition(HeaderOf(seg)) = Null THEN "skipped"
    ELSE IF parseContentDisposition(HeaderOf(seg)).filename # Undefined THEN "file"
    ELSE "field"

\* The bodies of the segments that have one
SegmentBodies(segs) ==
    {BodyOf(segs[k]) : k \in {j \in 1..Len(segs) : HasBlankLine(segs[j])}}

IsFileSegment(seg) == SegmentKind(seg) = "file"

\* The file of a file segment
FileOf(seg) ==
    [name |-> parseContentDisposition(HeaderOf(seg)).fieldName,
     filename |-> parseContentDisposition(HeaderOf(seg)).filename.value,
     mimetype |-> IF \E i \in 1..Len(HeaderOf(seg)) : HeaderOf(seg)[i] = "Content-Type: t"
                  THEN "t" ELSE "application/octet-stream",
     data |-> BodyOf(seg)]

\* C31: parseMultipartData never fails: it discards the segment before the
\* first delimiter and the one after the last, and for each interior
\* segment in order adds one file (the disposition header has a filename;
\* the MIME type defaults to application/octet-stream) or sets one field
\* (it has none), and skips a segment without a blank line or without a
\* parsable Content-Disposition header; the files keep segment order.
C31_MultipartSegments ==
    MultipartParsed =>
        LET segs == InteriorSegments(req.buffer)
            fileSegs == SelectSeq(segs, IsFileSegment)
        IN  /\ reader.body.files = [k \in 1..Len(fileSegs) |-> FileOf(fileSegs[k])]
            /\ \A name \in {"a", "b"}, value \in SegmentBodies(segs) :
                   <<name, value>> \in reader.body.fields <=>
                       \E k \in 1..Len(segs) :
                           /\ SegmentKind(segs[k]) = "field"
                           /\ parseContentDisposition(HeaderOf(segs[k])).fieldName = name
                           /\ BodyOf(segs[k]) = value
                           /\ \A j \in (k + 1)..Len(segs) :
                                  ~(/\ SegmentKind(segs[j]) = "field"
                                    /\ parseContentDisposition(HeaderOf(segs[j])).fieldName
                                           = name)
            /\ \A pr \in reader.body.fields : pr[2] \in SegmentBodies(segs)

\* A buffer with a field segment before the first delimiter and after the
\* last was parsed into two files in segment order and one field of another
\* name; nothing of the outer segments is in the result.
C31_Witness ==
    /\ MultipartParsed
    /\ Len(req.buffer) > 0
    /\ req.buffer[1] # Delimiter
    /\ req.buffer[Len(req.buffer)] # Delimiter
    /\ Len(reader.body.files) = 2
    /\ reader.body.files[1].filename = "f"
    /\ reader.body.files[1].mimetype = "t"
    /\ reader.body.files[2].filename = "g"
    /\ reader.body.files[2].mimetype = "application/octet-stream"
    /\ reader.body.fields = {<<"b", <<>>>>}

CeilingOptions ==
    {[DefaultOptions EXCEPT !.limit = limit, !.multipart = mp] :
         limit \in {Str_1kb, Str_1mb, Str_2mb}, mp \in BOOLEAN}

CeilingContentTypes == {"text/plain", "multipart/form-data; boundary=b"}

CeilingSizes == {1, 1024, LimitBytes}

NextCeiling ==
    \/ \E m \in Methods, ct \in CeilingContentTypes, options \in CeilingOptions,
          declared \in {0, 2048} :
           EnhanceRequestOptions(m, ct, options, declared, "object")
    \/ \E size \in CeilingSizes : Data(size)
    \/ End

SpecCeiling == Init /\ [][NextCeiling]_vars

\* What the claim says of one enhanceRequest call with the given options
ReadsUnderCeiling(method, options, declared) ==
    LET ceiling == parseLimit(options.limit).val IN
    IF method \in methodsWithBody
    THEN IF declared > ceiling
         THEN reader'.outcome = "threw" /\ ~reader'.attached
         ELSE /\ reader'.stage = "reading"
              /\ reader'.attached
              /\ reader'.limitBytes = ceiling
    ELSE /\ ~reader'.attached
         /\ reader'.outcome = "returned"
         /\ reader'.body = Null

\* C37: every body-reading path of enhanceRequest enforces the configured
\* size ceiling (parsingOptions.limit): the multipart path reads the stream
\* under the same ceiling as the non-multipart path; the body is read only
\* for POST, PUT and PATCH, for other methods the stream is not consumed and
\* the body is none.
C37_EveryPathUnderCeiling ==
    [][\A m \in Methods, ct \in CeilingContentTypes, options \in CeilingOptions,
          declared \in {0, 2048} :
          EnhanceRequestOptions(m, ct, options, declared, "object")
              => ReadsUnderCeiling(m, options, declared)]_vars

\* The same, off the multipart path
C37_HoldsOffMultipartPath ==
    [][\A m \in Methods, ct \in CeilingContentTypes, options \in CeilingOptions,
          declared \in {0, 2048} :
          (/\ EnhanceRequestOptions(m, ct, options, declared, "object")
           /\ ~(options.multipart /\ IsMultipart(ct)))
              => ReadsUnderCeiling(m, options, declared)]_vars

\* ------------------------------------------------------------------------
\* SpecBodyParser: the bodyParser middleware (src/src/middleware/index.ts).
\* The file holds the middleware twice (lines 49-91 and 279-321); the second
\* text also listens to 'error'.  The state of one call is kept in reader:
\* totalSize and body are the closure's variables, body is counted in bytes,
\* reqBody is req.body; log holds the calls of res.status(..).json(..) and
\* of the continuation.
\* ------------------------------------------------------------------------
BodyParserTexts == {1, 2}

BodyParserLimits == {Str_1kb, Str_1mb}

BodyParserContentTypes == {"application/x-www-form-urlencoded", "application/json"}

BodyParserSizes == {1, 1024, LimitBytes}

\* the middleware bodyParser(options) returns, called on a request
bodyParser(text, urlencoded, limit, contentType, lg) ==
    IF urlencoded /\ IsUrlencoded(contentType)
    THEN [reader |-> [stage |-> "reading", text |-> text, attached |-> TRUE,
                      ended |-> FALSE, limitBytes |-> parseLimit(limit).val,
                      totalSize |-> 0, body |-> 0, consumed |-> 0,
                      reqBody |-> Undefined],
          log |-> lg]
    ELSE [reader |-> [stage |-> "passed", text |-> text, attached |-> FALSE,
                      ended |-> FALSE, limitBytes |-> parseLimit(limit).val,
                      totalSize |-> 0, body |-> 0, consumed |-> 0,
                      reqBody |-> Undefined],
          log |-> Append(lg, <<"next", 0>>)]

\* req.on("data", chunk => ...)
bodyParserOnData(r, response, lg, size) ==
    LET r1 == [r EXCEPT !.totalSize = @ + size, !.consumed = @ + 1] IN
    IF r1.totalSize > r1.limitBytes
    THEN [reader |-> r1, res |-> ResEnd(response, 413, "Request entity too large"),
          log |-> Append(lg, <<"json", 413>>)]
    ELSE [reader |-> [r1 EXCEPT !.body = @ + size], res |-> response, log |-> lg]

\* req.on("end", () => ...): new URLSearchParams(body) takes any string
bodyParserOnEnd(r, lg) ==
    [reader |-> [r EXCEPT !.ended = TRUE, !.stage = "ended",
                          !.reqBody = [kind |-> "object", bytes |-> r.body]],
     log |-> Append(lg, <<"next", 0>>)]

\* req.on('error', () => ...), in the second text only
bodyParserOnError(r, response, lg) ==
    IF r.text = 2
    THEN [reader |-> [r EXCEPT !.ended = TRUE, !.stage = "failed"],
          res |-> ResEnd(response, 400, "Request parsing error"),
          log |-> Append(lg, <<"json", 400>>)]
    ELSE [reader |-> [r EXCEPT !.ended = TRUE, !.stage = "failed"],
          res |-> response, log |-> lg]

bodyParserVars == <<phase, appVars, nodeEnv, routeCache, now, pc, req, reqId, reqParams,
                    matched, thrown, swiftError, unhandled>>

BodyParser(text, urlencoded, limit, contentType) ==
    /\ reader.stage = "idle"
    /\ pc = "idle"
    /\ LET r == bodyParser(text, urlencoded, limit, contentType, log) IN
        /\ reader' = r.reader
        /\ log' = r.log
    /\ UNCHANGED <<bodyParserVars, res>>

BodyParserData(size) ==
    /\ reader.stage = "reading"
    /\ reader.consumed < MaxChunks
    /\ LET r == bodyParserOnData(reader, res, log, size) IN
        /\ reader' = r.reader
        /\ res' = r.res
        /\ log' = r.log
    /\ UNCHANGED bodyParserVars

BodyParserEnd ==
    /\ reader.stage = "reading"
    /\ LET r == bodyParserOnEnd(reader, log) IN
        /\ reader' = r.reader
        /\ log' = r.log
    /\ UNCHANGED <<bodyParserVars, res>>

BodyParserError ==
    /\ reader.stage = "reading"
    /\ LET r == bodyParserOnError(reader, res, log) IN
        /\ reader' = r.reader
        /\ res' = r.res
        /\ log' = r.log
    /\ UNCHANGED bodyParserVars

NextBodyParser ==
    \/ \E text \in BodyParserTexts, urlencoded \in BOOLEAN, limit \in BodyParserLimits,
          contentType \in BodyParserContentTypes :
           BodyParser(text, urlencoded, limit, contentType)
    \/ \E size \in BodyParserSizes : BodyParserData(size)
    \/ BodyParserEnd
    \/ BodyParserError

SpecBodyParser == Init /\ [][NextBodyParser]_vars

\* how often the continuation was invoked
Continuations == Cardinality({i \in 1..Len(log) : log[i][1] = "next"})

OverLimit == reader.stage \in {"reading", "ended"} /\ reader.totalSize > reader.limitBytes

WithinLimit == reader.stage \in {"reading", "ended"} /\ reader.totalSize <= reader.limitBytes

ContinuedAfterEnd ==
    IF reader.ended
    THEN Continuations = 1 /\ reader.reqBody # Undefined /\ log[Len(log)][1] = "next"
    ELSE Continuations = 0

\* C38: when the URL-encoded body exceeds the limit, bodyParser responds 413
\* once and never invokes its continuation for that request, whatever chunks
\* and end-of-stream follow; when the body stays within the limit the
\* continuation is invoked exactly once, after end-of-stream and after
\* req.body is set.
C38_OverLimitNeverContinues ==
    /\ OverLimit =>
        /\ res.headersSent /\ res.statusCode = 413
        /\ Continuations = 0
    /\ WithinLimit => ContinuedAfterEnd

\* The second half alone, and the 413 response of the first
C38_HoldsWithinLimit ==
    /\ OverLimit => res.headersSent /\ res.statusCode = 413
    /\ WithinLimit => ContinuedAfterEnd

\* ------------------------------------------------------------------------
\* SpecCompose: compose(...middlewares) (src/src/middleware/index.ts).  The
\* file holds the helper twice (lines 158-179 and 449-470); the first text
\* rejects only with a caught Error, the second with any caught value.  In
\* this specification the variable middleware holds the array the composed
\* middleware closes over, and log the functions it invoked, the outer
\* continuation as <<"outer", n>>.
\* ------------------------------------------------------------------------
ComposeTexts == {1, 2}

ComposeKinds == {"next", "nextNoAwait", "twice", "silent", "throw", "throwValue"}

ThrownValue == [kind |-> "string", value |-> "boom"]

RECURSIVE composeDispatch(_, _, _, _)
composeDispatch(middlewares, text, i, st) ==
    IF i <= st.index THEN Thrown(st, NextCalledError)
    ELSE LET st1 == [st EXCEPT !.index = i] IN
      IF i = Len(middlewares)
      THEN Returned([st1 EXCEPT !.log = Append(@, <<"outer", i>>)])
      ELSE IF i > Len(middlewares) THEN Returned(st1)
      ELSE LET fn == middlewares[i + 1]
               st2 == [st1 EXCEPT !.log = Append(@, <<"composed", i>>)]
               called == composeDispatch(middlewares, text, i + 1, st2)
               r == IF fn = "next" THEN called
                    ELSE IF fn = "nextNoAwait"
                         THEN IF called.threw
                              THEN Returned([called.st EXCEPT
                                                 !.unhandled = Append(@, called.error)])
                              ELSE Returned(called.st)
                    ELSE IF fn = "twice"
                         THEN IF called.threw THEN called
                              ELSE Thrown(called.st, NextCalledError)
                    ELSE IF fn = "silent" THEN Returned(st2)
                    ELSE IF fn = "throw" THEN Thrown(st2, MiddlewareFailure)
                    ELSE Thrown(st2, ThrownValue)
           IN
        IF r.threw /\ text = 1 /\ r.error.kind # "Error" THEN Returned(r.st) ELSE r

\* the middleware compose(...middlewares) returns, called on a request
compose(middlewares, text, st) ==
    composeDispatch(middlewares, text, 0, [st EXCEPT !.index = InitialIndex])

composeVars == <<phase, routes, errorHandlers, globalErrorHandler, errorReporter,
                 nodeEnv, routeCache, now, req, reqId, reqParams, matched, swiftError,
                 reader>>

\* compose(m1, ..., mn)
Compose(middlewares) ==
    /\ pc = "idle"
    /\ middleware = <<>>
    /\ middlewares # <<>>
    /\ middleware' = middlewares
    /\ UNCHANGED <<composeVars, pc, res, thrown, log, unhandled>>

\* the composed middleware is called with a request and a continuation
ComposedCall(text) ==
    /\ pc = "idle"
    /\ middleware # <<>>
    /\ LET r == compose(middleware, text,
                        [index |-> InitialIndex, res |-> res, log |-> <<>>,
                         unhandled |-> <<>>]) IN
        /\ log' = r.st.log
        /\ res' = r.st.res
        /\ unhandled' = r.st.unhandled
        /\ thrown' = IF r.threw THEN r.error ELSE Undefined
    /\ pc' = "done"
    /\ UNCHANGED <<composeVars, middleware>>

NextCompose ==
    \/ \E n \in 1..(MaxGlobal + 1) : \E middlewares \in [1..n -> ComposeKinds] :
           Compose(middlewares)
    \/ \E text \in ComposeTexts : ComposedCall(text)

SpecCompose == Init /\ [][NextCompose]_vars

\* the calls due when m1..mk run, mk being the first that does not continue
RECURSIVE DueCalls(_, _)
DueCalls(middlewares, i) ==
    IF i = Len(middlewares) THEN <<<<"outer", i>>>>
    ELSE <<<<"composed", i>>>> \o
         (IF middlewares[i + 1] \in {"next", "nextNoAwait", "twice"}
          THEN DueCalls(middlewares, i + 1) ELSE <<>>)

\* the rejection due: the first composed middleware reached that throws,
\* or the error of a second call of a continuation
RECURSIVE DueRejection(_, _)
DueRejection(middlewares, i) ==
    IF i >= Len(middlewares) THEN Undefined
    ELSE LET fn == middlewares[i + 1] IN
      IF fn = "throw" THEN MiddlewareFailure
      ELSE IF fn = "throwValue" THEN ThrownValue
      ELSE IF fn = "silent" THEN Undefined
      ELSE IF fn = "nextNoAwait" THEN Undefined
      ELSE LET inner == DueRejection(middlewares, i + 1) IN
        IF inner # Undefined THEN inner
        ELSE IF fn = "twice" THEN NextCalledError ELSE Undefined

\* C40: compose(m1, ..., mn) returns a middleware that invokes m1..mn in
\* order, each one only after the previous one called its continuation,
\* invokes the outer continuation exactly once after mn called its
\* continuation, rejects with 'next() called multiple times' when a
\* continuation is called a second time, and propagates any value thrown by
\* a composed middleware as a rejection.
C40_ComposeRunsInOrder ==
    pc = "done" =>
        /\ log = DueCalls(middleware, 0)
        /\ thrown = DueRejection(middleware, 0)

\* What every call of the composed middleware does
C40_EveryCallRejected ==
    pc = "done" => log = <<>> /\ thrown = NextCalledError

====
